---- MODULE Spec2Model ----
(***************************************************************************)
(* State-machine model of the checkpointed list-processing engine of the   *)
(* LinkedIn CV downloader: ApplicantProcessor (the per-page item loop, the *)
(* selection and download retry loops, the reload recovery), the           *)
(* AutomationService facade (startDownload, runProcessingLoop, pause,      *)
(* resume, stop), the StateManager checkpoint file and the                 *)
(* PaginationManager (getActivePageNumber, isNextPageAvailable,            *)
(* switchToNextPage, navigateToPage).                                      *)
(*                                                                         *)
(* The browser is the environment: what a row's identity is, whether a     *)
(* selection verifies, which download control is found, whether the virus  *)
(* scan interstitial is shown and how many rows are rendered are chosen    *)
(* nondeterministically at the step that reads them.                       *)
(***************************************************************************)
EXTENDS Integers, Sequences, FiniteSets, TLC

\* ------------------------------------------------------------------ bounds
MaxRows == 2        \* rows of the applicant list over all pages
MaxRuns == 2        \* process starts (a start, then restarts after a kill)
MaxUserOps == 1     \* pause and stop requests
MaxFaults == 1      \* rows on which the remote application misbehaves
maxCvCount == 2     \* config.maxCvCount
MaxList == 2        \* rows the list can render while _recoverListState scrolls
MaxPage == 3        \* pages the remote applicants list has at most
MaxTarget == 4      \* largest page number navigateToPage is asked for
MaxCalls == 1       \* calls made to the PaginationManager
NumSavedPages == 3  \* largest page number runProcessingLoop saves
breakInterval == 1   \* config.breakInterval: successes between long breaks
MaxTokens == 3      \* tokens of the text of a row's title element
MaxVersion == 3     \* highest version a file of the initial directory has
MaxFiles == 8       \* files the download directory holds at most

\* ------------------------------------------------------- program constants
RETRY_ATTEMPTS == 7
MAX_VIRUS_RELOADS == 3
SAVE_EVERY == 5
MAX_SCROLL_RETRIES == 50
STAGNANT_LIMIT == 10
START_PAGE == 1
MAX_LOOPS == 50
MIN_NAME_LENGTH == 2
CONTEXT_ATTEMPTS == 3

\* -------------------------------------------------------------- identities
Names == {"A", "B"}
NoName == ""
UnknownApplicant == "Unknown Applicant"
RowIdentities == Names \cup {NoName}
\* what the detail pane / name element shows when the row gave no identity
DetailNames == Names \cup {UnknownApplicant}

VARIABLES
    \* ApplicantProcessor fields
    downloadCount, failedApplicants, stopped, paused, processedApplicants,
    virusScanRedirectCount,
    \* locals of processCurrentPage / processSingleApplicant / the retry loops
    pc, processedIndex, applicantName, attempt,
    \* AutomationService.stopped
    svcStopped,
    \* StateManager: the content of the checkpoint file (a record by key)
    checkpoint,
    \* the remote application: the rows of each page, the page shown, the
    \* number of rows rendered
    pages, activePage, rendered,
    \* what the exploration has used of its bounds
    runs, userOps, faults, itemFaulty,
    \* history of the job (it survives a kill, like the files on disk)
    jobNo, artifacts, jobSuccesses, redownloaded,
    \* history of the run
    resumed, hydratedP, succeeded, dupSuccess, visited, reloads,
    recoveryExhausted,
    \* history of the row being processed
    itemClicked, itemTried, itemWasDup, itemOutcome, itemReloads, itemSeen,
    itemBase, itemSelect, itemBreak,
    \* _recoverListState locals and the list it scrolls
    rpc, targetIndex, recoveredCount, retryScrolls, stagnantCount, lastCount,
    listCount, scrollAttempts,
    \* the pagination bar of the remote application: the page it shows, the
    \* pages that exist, the page numbers rendered as page-buttons, how the
    \* active-page indicator reads, whether a Next control is shown
    uiPage, totalPages, visible, indicator, nextShown,
    \* navigateToPage locals and what it reported
    ppc, navTarget, currentPage, loopCounter, warned,
    \* the latest result of getActivePageNumber, isNextPageAvailable and
    \* switchToNextPage
    lastRead, nextAvailable, lastSwitch,
    \* calls made to the PaginationManager
    calls,
    \* StateManager.saveState calls under way: what each caller read and what
    \* it is about to merge
    saving,
    \* ApplicantNameExtractor.extractName: the texts the four strategies find
    \* in a row, and the name returned
    rowTexts, extracted,
    \* _selectAndVerifyApplicant: position in the attempt loop, attempt number,
    \* the row it is called on, the clicks made, the value returned, and the
    \* attempt whose verification succeeded
    spc, sAttempt, sRow, sClicks, sResult, sVerifiedAt,
    \* _ensurePageContext: position, navigation attempts made, the URL of the
    \* page, requiredCount, the rows rendered after recovery, the outcome
    cpc, cAttempts, cUrl, cRequired, cListCount, cResult,
    \* tryDownloadCv, locating the download control: what the selectors match
    \* in the detail pane, and the control the attempt goes on with
    lDom, lUsed,
    \* the files of the download directory, and the last file saved into it
    files, savedFile

procVars == <<downloadCount, failedApplicants, stopped, paused,
              processedApplicants, virusScanRedirectCount>>
loopVars == <<pc, processedIndex, applicantName, attempt>>
envVars == <<pages, activePage, rendered>>
budgetVars == <<runs, userOps, faults, itemFaulty>>
jobHist == <<jobNo, artifacts, jobSuccesses, redownloaded>>
runHist == <<resumed, hydratedP, succeeded, dupSuccess, visited, reloads,
             recoveryExhausted>>
itemHist == <<itemClicked, itemTried, itemWasDup, itemOutcome, itemReloads,
              itemSeen, itemBase, itemSelect, itemBreak>>
recoverVars == <<rpc, targetIndex, recoveredCount, retryScrolls,
                 stagnantCount, lastCount, listCount, scrollAttempts>>
domVars == <<uiPage, totalPages, visible, indicator, nextShown>>
seekVars == <<ppc, navTarget, currentPage, loopCounter, warned>>
pagerVars == <<domVars, seekVars, lastRead, nextAvailable, lastSwitch, calls>>
nameVars == <<rowTexts, extracted>>
selectVars == <<spc, sAttempt, sRow, sClicks, sResult, sVerifiedAt>>
contextVars == <<cpc, cAttempts, cUrl, cRequired, cListCount, cResult>>
locateVars == <<lDom, lUsed>>
fileVars == <<files, savedFile>>
laterVars == <<selectVars, contextVars, locateVars, fileVars>>
otherVars == <<saving, nameVars, laterVars>>
vars == <<procVars, loopVars, svcStopped, checkpoint, envVars, budgetVars,
          jobHist, runHist, itemHist, recoverVars, pagerVars, otherVars>>

\* ---------------------------------------------------------------- helpers
EmptyState == [k \in {} |-> 0]

\* StateManager.loadState: the parsed file, {} when it is absent or invalid
loadState(file) == file

\* StateManager.saveState: read, merge ({...current, ...newState}), write
saveState(file, newState) ==
    [k \in (DOMAIN loadState(file)) \cup (DOMAIN newState) |->
        IF k \in DOMAIN newState THEN newState[k] ELSE loadState(file)[k]]

\* the throttle alone: neither the force argument nor the flags are looked at
ShouldSaveThrottled(force, isPaused, isStopped, count) ==
    count % SAVE_EVERY = 0

\* ApplicantProcessor._saveProgress: the throttle, and what is written
ShouldSave(force, isPaused, isStopped, count) ==
    force \/ isPaused \/ isStopped \/ count % SAVE_EVERY = 0

ProgressRecord(processed, count, failed) ==
    [processedApplicants |-> processed, downloadCount |-> count,
     failedApplicants |-> failed]

saveProgress(file, force, isPaused, isStopped, processed, count, failed) ==
    IF ShouldSave(force, isPaused, isStopped, count)
    THEN saveState(file, ProgressRecord(processed, count, failed))
    ELSE file

\* processSingleApplicant: the duplicate test
IsDuplicateNever(name, processed) == FALSE
IsDuplicate(name, processed) == name # NoName /\ name \in processed

\* processSingleApplicant: if (applicantName) this.processedApplicants.add(...)
MarkProcessed(name, processed) ==
    IF name # NoName THEN processed \cup {name} ELSE processed

\* _checkForPause / the pause loop of processCurrentPage: blocked while
\* paused and not stopped
BlockedNever == FALSE
Blocked == paused /\ ~stopped

\* the rows of the page being walked
Rows == pages[activePage]
NumPages == Len(pages)
Running == pc \in {"loop", "item", "select", "download", "reload", "post", "pageDone"}

\* what is known when a row is handed to processSingleApplicant
ItemBase(failed, count, index) == [failed |-> failed, count |-> count, index |-> index]

FailureRecord(name, reason) == [name |-> name, reason |-> reason, page |-> activePage]

\* the name a virus-scan signal carries: the row identity, else what the
\* detail pane shows, else 'Unknown Applicant'
ResolvedNames(name) == IF name # NoName THEN {name} ELSE DetailNames

\* _getApplicantName: the text of the active list row, else 'Unknown'
ActiveItemNames == Names \cup {"Unknown"}

\* the name a FailureRecord of tryDownloadCv carries
FailedNames(name) == IF name # NoName THEN {name} ELSE ActiveItemNames

\* the remote application misbehaves on the current row (bounded by MaxFaults
\* rows), or behaves
Fault ==
    /\ itemFaulty \/ faults < MaxFaults
    /\ itemFaulty' = TRUE
    /\ faults' = IF itemFaulty THEN faults ELSE faults + 1
NoFault == UNCHANGED <<faults, itemFaulty>>

\* ------------------------------------------------------------------- Init
\* the rows of the list; which of two applicants is called "A" does not
\* matter, so the first named row is "A"
FirstNamedIsA(l) ==
    \A i \in 1..Len(l) : l[i] = "B" => \E j \in 1..(i - 1) : l[j] = "A"
RowLists(n) == {l \in [1..n -> RowIdentities] : FirstNamedIsA(l)}
\* a list is shown on one page or split over two
Layouts(lists) ==
    {<<l>> : l \in lists} \cup
    UNION {{<<SubSeq(l, 1, k), SubSeq(l, k + 1, Len(l))>> : k \in 1..(Len(l) - 1)} :
           l \in lists}

RecoverIdle ==
    /\ rpc = "off" /\ targetIndex = 0 /\ recoveredCount = 0 /\ retryScrolls = 0
    /\ stagnantCount = 0 /\ lastCount = 0 /\ listCount = 0 /\ scrollAttempts = 0

NoRead == [kind |-> "none", shown |-> 0, value |-> 0]
NoSwitch == [from |-> 0, to |-> 0, oldPage |-> 0, result |-> "none"]
PagerIdle ==
    /\ uiPage = 1 /\ totalPages = 1 /\ visible = {1} /\ indicator = "number"
    /\ nextShown = FALSE
    /\ ppc = "off" /\ navTarget = 0 /\ currentPage = 0 /\ loopCounter = 0
    /\ warned = FALSE
    /\ lastRead = NoRead /\ nextAvailable = "none" /\ lastSwitch = NoSwitch
    /\ calls = 0

\* the callers whose saveState calls can be under way together: the
\* processing loop and the pause / stop handlers
Callers == {"loop", "ui"}
NotSaving == [phase |-> "idle", current |-> EmptyState, update |-> EmptyState]
StoreIdle == saving = [c \in Callers |-> NotSaving]

\* ApplicantNameExtractor: no row is being read
\* an element a strategy looks for: found or not, and its text
NoElement == [present |-> FALSE, text |-> <<>>]
Element(text) == [present |-> TRUE, text |-> text]

ExtractorIdle ==
    /\ rowTexts = [title |-> NoElement, lockup |-> NoElement,
                   link |-> NoElement, alt |-> NoElement, readFails |-> FALSE]
    /\ extracted = [done |-> FALSE, name |-> <<>>]

\* _selectAndVerifyApplicant is not running
SelectIdle ==
    /\ spc = "off" /\ sAttempt = 0 /\ sRow = [hasSafe |-> FALSE, fallbackGiven |-> FALSE] /\ sClicks = <<>>
    /\ sResult = "none" /\ sVerifiedAt = 0

\* _ensurePageContext is not running
ContextIdle ==
    /\ cpc = "off" /\ cAttempts = 0 /\ cUrl = "list" /\ cRequired = 0
    /\ cListCount = 0 /\ cResult = "none"

\* no download control is being located
LocateIdle ==
    /\ lDom = [primary |-> FALSE, fallback |-> FALSE, broad |-> FALSE,
               more |-> FALSE, menuItem |-> FALSE, menuThrows |-> FALSE]
    /\ lUsed = "pending"

\* an empty download directory, nothing saved yet
FilesIdle == files = {} /\ savedFile = <<>>

LaterIdle == SelectIdle /\ ContextIdle /\ LocateIdle /\ FilesIdle

ProcessorNew ==
    /\ downloadCount = 0 /\ failedApplicants = <<>> /\ stopped = FALSE
    /\ paused = FALSE /\ processedApplicants = {} /\ virusScanRedirectCount = 0

InitWith(layouts, startedRuns) ==
    /\ pages \in layouts
    /\ activePage = 1 /\ rendered = 0
    /\ checkpoint = EmptyState
    /\ pc = "idle" /\ processedIndex = 0 /\ applicantName = NoName /\ attempt = 0
    /\ ProcessorNew
    /\ svcStopped = FALSE
    /\ runs = startedRuns /\ userOps = 0 /\ faults = 0 /\ itemFaulty = FALSE
    /\ jobNo = 0 /\ artifacts = {} /\ jobSuccesses = 0 /\ redownloaded = FALSE
    /\ resumed = FALSE /\ hydratedP = {}
    /\ succeeded = {} /\ dupSuccess = FALSE /\ visited = 0 /\ reloads = 0
    /\ recoveryExhausted = FALSE /\ itemSelect = "none"
    /\ itemClicked = FALSE /\ itemTried = FALSE /\ itemWasDup = FALSE
    /\ itemOutcome = {} /\ itemReloads = 0
    /\ itemSeen = {} /\ itemBase = ItemBase(0, 0, 0) /\ itemBreak = FALSE
    /\ RecoverIdle
    /\ PagerIdle
    /\ StoreIdle
    /\ ExtractorIdle
    /\ LaterIdle

Init == InitWith(Layouts(UNION {RowLists(n) : n \in 1..MaxRows}), 0)

\* --------------------------------------------- AutomationService.startDownload
InitialState(folder) ==
    [folderPath |-> folder, processedApplicants |-> {}, startPage |-> START_PAGE,
     downloadCount |-> 0]

\* ApplicantProcessor.hydrateState(processedList, count)
hydrateState(processedList, count) ==
    [processedApplicants |-> processedList, downloadCount |-> count]

ItemHistoryReset(failed, count, index) ==
    /\ itemClicked' = FALSE /\ itemTried' = FALSE /\ itemWasDup' = FALSE
    /\ itemOutcome' = {} /\ itemReloads' = 0
    /\ itemSeen' = {} /\ itemBase' = ItemBase(failed, count, index)
    /\ itemSelect' = "none" /\ itemBreak' = FALSE

RunHistoryReset ==
    /\ succeeded' = {} /\ dupSuccess' = FALSE /\ visited' = 0 /\ reloads' = 0
    /\ recoveryExhausted' = FALSE

StartDownload(resume) ==
    /\ pc \in {"idle", "done"}
    /\ runs < MaxRuns
    /\ LET resumeState == loadState(checkpoint)
           hasFolder == resume /\ "folderPath" \in DOMAIN resumeState
           hydrate == resume /\ "processedApplicants" \in DOMAIN resumeState
           count == IF "downloadCount" \in DOMAIN resumeState
                    THEN resumeState.downloadCount ELSE 0
           hydrated == IF hydrate
                       THEN hydrateState(resumeState.processedApplicants, count)
                       ELSE hydrateState({}, 0)
           targetPage == IF resume /\ "lastPage" \in DOMAIN resumeState
                         THEN resumeState.lastPage ELSE START_PAGE
       IN
       /\ checkpoint' = IF hasFolder THEN checkpoint
                        ELSE saveState(checkpoint, InitialState(jobNo + 1))
       /\ jobNo' = IF hasFolder THEN jobNo ELSE jobNo + 1
       /\ artifacts' = IF hasFolder THEN artifacts ELSE {}
       /\ jobSuccesses' = IF hasFolder THEN jobSuccesses ELSE 0
       /\ redownloaded' = IF hasFolder THEN redownloaded ELSE FALSE
       /\ processedApplicants' = hydrated.processedApplicants
       /\ downloadCount' = hydrated.downloadCount
       /\ resumed' = hydrate
       /\ hydratedP' = IF hydrate THEN resumeState.processedApplicants ELSE {}
       \* navigateToPage(targetPage): best effort, stops at the page reached
       /\ activePage' \in {p \in 1..NumPages : p <= targetPage}
    /\ rendered' \in 0..Len(pages[activePage'])
    /\ failedApplicants' = <<>> /\ stopped' = FALSE /\ paused' = FALSE
    /\ virusScanRedirectCount' = 0 /\ svcStopped' = FALSE
    /\ processedIndex' = 0 /\ applicantName' = NoName /\ attempt' = 0
    /\ pc' = "loop"
    /\ runs' = runs + 1
    /\ itemFaulty' = FALSE
    /\ ItemHistoryReset(0, downloadCount', 0) /\ RunHistoryReset
    /\ UNCHANGED <<pages, userOps, faults, recoverVars,
                   pagerVars, otherVars>>

\* ------------------------------------- ApplicantProcessor.processCurrentPage
\* if (this.downloadCount >= this.config.maxCvCount)
LimitReachedNever(count) == FALSE
LimitReached(count) == count >= maxCvCount

\* the lazy-load attempt at the end of the rendered rows: continue when the
\* count grew, else (no growth, or the attempt threw) isPageComplete = true
AfterLazyLoadAlwaysComplete(newCount, previousCount) == "pageDone"
AfterLazyLoad(newCount, previousCount) ==
    IF newCount > previousCount THEN "loop" ELSE "pageDone"

\* one evaluation of the while loop up to the call of processSingleApplicant
LoopTop ==
    /\ pc = "loop"
    /\ \/ \* while (!this.stopped ...): stop observed, the page loop exits
          /\ stopped
          /\ pc' = "pageDone"
          /\ UNCHANGED <<rendered, stopped, checkpoint, visited, faults,
                         itemFaulty, itemHist, recoveryExhausted>>
       \/ \* _ensurePageContext throws after its retries: break
          /\ ~stopped /\ ~paused
          /\ faults < MaxFaults /\ faults' = faults + 1
          /\ pc' = "pageDone"
          /\ recoveryExhausted' = TRUE
          /\ UNCHANGED <<rendered, stopped, checkpoint, visited, itemFaulty,
                         itemHist>>
       \/ \* _ensurePageContext restores the list: rendered count > cursor
          /\ ~stopped /\ ~paused
          /\ faults < MaxFaults /\ faults' = faults + 1
          /\ rendered' \in (processedIndex + 1)..Len(Rows)
          /\ pc' = "loop"
          /\ UNCHANGED <<stopped, checkpoint, visited, itemFaulty, itemHist,
                         recoveryExhausted>>
       \/ \* end of the rendered rows: lazy load
          /\ ~stopped /\ ~paused
          /\ processedIndex >= rendered
          /\ \E newCount \in rendered..Len(Rows) :
                /\ rendered' = newCount
                /\ pc' = AfterLazyLoad(newCount, rendered)
          /\ UNCHANGED <<stopped, checkpoint, visited, faults, itemFaulty,
                         itemHist, recoveryExhausted>>
       \/ \* the download limit is reached: this.stop(), return
          /\ ~stopped /\ ~paused
          /\ processedIndex < rendered
          /\ LimitReached(downloadCount)
          /\ stopped' = TRUE
          /\ checkpoint' = saveProgress(checkpoint, TRUE, paused, TRUE,
                              processedApplicants, downloadCount, failedApplicants)
          /\ pc' = "pageDone"
          /\ UNCHANGED <<rendered, visited, faults, itemFaulty, itemHist,
                         recoveryExhausted>>
       \/ \* the next row is handed to processSingleApplicant
          /\ ~stopped /\ ~paused
          /\ processedIndex < rendered
          /\ ~LimitReached(downloadCount)
          /\ pc' = "item"
          /\ visited' = visited + 1
          /\ itemFaulty' = FALSE
          /\ ItemHistoryReset(Len(failedApplicants), downloadCount,
                              processedIndex)
          /\ UNCHANGED <<rendered, stopped, checkpoint, faults,
                         recoveryExhausted>>
    /\ UNCHANGED <<downloadCount, failedApplicants, paused, processedApplicants,
                   virusScanRedirectCount, processedIndex, applicantName, attempt,
                   svcStopped, pages, activePage, runs, userOps, jobHist,
                   resumed, hydratedP, succeeded, dupSuccess, reloads,
                   recoverVars,
                   pagerVars, otherVars>>

\* -------------------------------- ApplicantProcessor.processSingleApplicant
\* _checkForPause, extractName, the duplicate test
ItemStart ==
    /\ pc = "item"
    /\ ~Blocked
    /\ LET name == Rows[processedIndex + 1] IN
       /\ applicantName' = name
       /\ itemWasDup' = (name # NoName /\ name \in processedApplicants)
       /\ IF IsDuplicate(name, processedApplicants)
          THEN /\ pc' = "post"
               /\ attempt' = 0
               /\ virusScanRedirectCount' = 0
          ELSE /\ pc' = "select"
               /\ attempt' = 1
               /\ UNCHANGED virusScanRedirectCount
    /\ UNCHANGED <<downloadCount, failedApplicants, stopped, paused,
                   processedApplicants, processedIndex, svcStopped, checkpoint,
                   envVars, budgetVars, jobHist, runHist, itemClicked, itemTried,
                   itemOutcome, itemReloads, itemSeen, itemBase, itemSelect,
                   itemBreak,
                   recoverVars,
                   pagerVars, otherVars>>

\* one attempt of _selectAndVerifyApplicant, and what processSingleApplicant
\* does with its result
SelectAttempt ==
    /\ pc = "select"
    /\ ~Blocked
    /\ itemClicked' = TRUE
    /\ \/ \* scroll or click throws: caught by processCurrentPage, logged
          /\ Fault
          /\ itemSelect' = "threw"
          /\ pc' = "post"
          /\ virusScanRedirectCount' = 0
          /\ UNCHANGED <<processedApplicants, attempt>>
       \/ \* the detail pane shows the identity: selection verified
          /\ NoFault
          /\ itemSelect' = "verified"
          /\ processedApplicants' = MarkProcessed(applicantName, processedApplicants)
          /\ pc' = "download"
          /\ attempt' = 1
          /\ UNCHANGED virusScanRedirectCount
       \/ \* not verified, attempts left
          /\ Fault
          /\ attempt < RETRY_ATTEMPTS
          /\ attempt' = attempt + 1
          /\ UNCHANGED <<pc, processedApplicants, virusScanRedirectCount,
                         itemSelect>>
       \/ \* not verified on the last attempt: marked processed, skipped
          /\ Fault
          /\ attempt >= RETRY_ATTEMPTS
          /\ itemSelect' = "exhausted"
          /\ processedApplicants' = MarkProcessed(applicantName, processedApplicants)
          /\ pc' = "post"
          /\ virusScanRedirectCount' = 0
          /\ UNCHANGED attempt
    /\ UNCHANGED <<downloadCount, failedApplicants, stopped, paused,
                   processedIndex, applicantName, svcStopped, checkpoint,
                   envVars, runs, userOps, jobHist, runHist, itemTried,
                   itemWasDup, itemOutcome, itemReloads, itemSeen, itemBase,
                   itemBreak,
                   recoverVars,
                   pagerVars, otherVars>>

\* one attempt of tryDownloadCv; a VIRUS_SCAN_RELOAD_REQUIRED it throws is
\* handled by the catch block of processCurrentPage in the same step

NoDownload == UNCHANGED <<downloadCount, artifacts, jobSuccesses, succeeded,
                          dupSuccess, redownloaded>>

\* tryDownloadCv returns with nothing pushed
DownloadFailsSilently(kind, reasons) ==
    /\ itemSeen' = itemSeen \cup {kind}
    /\ itemOutcome' = itemOutcome
    /\ pc' = "post"
    /\ virusScanRedirectCount' = 0
    /\ NoDownload
    /\ UNCHANGED <<attempt, failedApplicants, processedApplicants, processedIndex>>

\* a FailureRecord is pushed and tryDownloadCv returns
DownloadFails(kind, reasons) ==
    /\ itemSeen' = itemSeen \cup {kind}
    /\ \E name \in FailedNames(applicantName), reason \in reasons :
          failedApplicants' = Append(failedApplicants, FailureRecord(name, reason))
    /\ itemOutcome' = itemOutcome \cup {"failure"}
    /\ pc' = "post"
    /\ virusScanRedirectCount' = 0
    /\ NoDownload
    /\ UNCHANGED <<attempt, processedApplicants, processedIndex>>

\* the attempt ends with continue, whatever the attempt number
DownloadRetriesUnbounded(kind) ==
    /\ itemSeen' = itemSeen \cup {kind}
    /\ attempt' = attempt + 1
    /\ NoDownload
    /\ UNCHANGED <<pc, failedApplicants, processedApplicants,
                   virusScanRedirectCount, processedIndex, itemOutcome>>

\* the attempt ends with continue
DownloadRetries(kind) ==
    /\ itemSeen' = itemSeen \cup {kind}
    /\ attempt < RETRY_ATTEMPTS
    /\ attempt' = attempt + 1
    /\ NoDownload
    /\ UNCHANGED <<pc, failedApplicants, processedApplicants,
                   virusScanRedirectCount, processedIndex, itemOutcome>>

DownloadAttempt ==
    /\ pc = "download"
    /\ ~Blocked
    /\ itemTried' = TRUE
    /\ \/ \* no control found, no virus-scan section, attempts left
          /\ Fault
          /\ DownloadRetries("none")
       \/ \* no control found on the last attempt
          /\ Fault
          /\ attempt >= RETRY_ATTEMPTS
          /\ DownloadFails("none", {"No CV button found"})
       \/ \* the link leads to the premium survey
          /\ Fault
          /\ DownloadFails("survey", {"Premium Survey Link Detected"})
       \/ \* click, download event, saveAs: the artifact is written
          /\ NoFault
          /\ downloadCount' = downloadCount + 1
          /\ jobSuccesses' = jobSuccesses + 1
          /\ artifacts' = MarkProcessed(applicantName, artifacts)
          /\ succeeded' = MarkProcessed(applicantName, succeeded)
          /\ dupSuccess' = (dupSuccess \/ applicantName \in succeeded)
          /\ redownloaded' = (redownloaded \/ applicantName \in artifacts)
          /\ itemOutcome' = itemOutcome \cup {"success"}
          /\ itemSeen' = itemSeen \cup {"saved"}
          /\ pc' = "post"
          /\ virusScanRedirectCount' = 0
          /\ UNCHANGED <<attempt, failedApplicants, processedApplicants,
                         processedIndex>>
       \/ \* a timeout or another error, attempts left
          /\ Fault
          /\ DownloadRetries("error")
       \/ \* a timeout or another error on the last attempt
          /\ Fault
          /\ attempt >= RETRY_ATTEMPTS
          /\ DownloadFails("error", {"Download timeout", "error.message"})
       \/ \* the virus-scan section is shown: VIRUS_SCAN_RELOAD_REQUIRED
          /\ Fault
          /\ itemSeen' = itemSeen \cup {"virus"}
          /\ \E triggerName \in ResolvedNames(applicantName) :
                IF virusScanRedirectCount >= MAX_VIRUS_RELOADS
                THEN /\ \E errName \in ActiveItemNames :
                          failedApplicants' =
                            Append(failedApplicants,
                                   FailureRecord(errName,
                                       "Persistent Virus Scan (Max Retries Exceeded)"))
                     /\ itemOutcome' = itemOutcome \cup {"failure"}
                     /\ virusScanRedirectCount' = 0
                     /\ processedIndex' = processedIndex + 1
                     /\ pc' = "loop"
                     /\ UNCHANGED processedApplicants
                ELSE /\ virusScanRedirectCount' = virusScanRedirectCount + 1
                     /\ processedApplicants' = processedApplicants \ {triggerName}
                     /\ pc' = "reload"
                     /\ UNCHANGED <<failedApplicants, itemOutcome, processedIndex>>
          /\ NoDownload
          /\ UNCHANGED attempt
    /\ UNCHANGED <<stopped, paused, applicantName, svcStopped, checkpoint, envVars,
                   runs, userOps, jobNo, resumed, hydratedP, visited, reloads,
                   recoveryExhausted, itemClicked, itemWasDup, itemReloads,
                   itemBase, itemSelect, itemBreak, recoverVars,
                   pagerVars, otherVars>>

\* the rest of the virus-scan branch: page.reload, waitForSelector,
\* _recoverListState (a failure is logged and swallowed), then the statements
\* that follow the branch inside the catch block
AfterVirusBranch(count) == 0

ReloadRecovery ==
    /\ pc = "reload"
    /\ rendered' \in 0..Len(Rows)
    /\ virusScanRedirectCount' = AfterVirusBranch(virusScanRedirectCount)
    /\ reloads' = reloads + 1
    /\ itemReloads' = itemReloads + 1
    /\ pc' = "post"
    /\ UNCHANGED <<downloadCount, failedApplicants, stopped, paused,
                   processedApplicants, processedIndex, applicantName, attempt,
                   svcStopped, checkpoint, pages, activePage, budgetVars, jobHist,
                   resumed, hydratedP, succeeded, dupSuccess, visited,
                   itemClicked, itemTried, itemWasDup, itemOutcome, itemSeen,
                   itemBase, itemSelect, itemBreak, recoveryExhausted, recoverVars,
                   pagerVars, otherVars>>

\* processedIndex++, the idle / break waits, _saveProgress()
NextIndex(index) == index + 1

\* if (this.downloadCount > 0 && this.downloadCount % breakInterval === 0):
\* the long break is taken
TakesBreak(count) == count > 0 /\ count % breakInterval = 0

AfterItem ==
    /\ pc = "post"
    /\ processedIndex' = NextIndex(processedIndex)
    /\ checkpoint' = saveProgress(checkpoint, FALSE, paused, stopped,
                         processedApplicants, downloadCount, failedApplicants)
    /\ itemBreak' = TakesBreak(downloadCount)
    /\ pc' = "loop"
    /\ UNCHANGED <<procVars, applicantName, attempt, svcStopped, envVars,
                   budgetVars, jobHist, runHist, itemClicked, itemTried,
                   itemWasDup, itemOutcome, itemReloads, itemSeen, itemBase,
                   itemSelect, recoverVars,
                   pagerVars, otherVars>>

\* ------------------------------------- AutomationService.runProcessingLoop
\* after processCurrentPage returned
PageDone ==
    /\ pc = "pageDone"
    /\ \/ \* stop observed, or no next page, or the switch failed: break
          /\ pc' = "done"
          /\ UNCHANGED <<activePage, rendered, checkpoint, processedIndex>>
       \/ \* switchToNextPage succeeded: reload, save the new page number
          /\ ~(svcStopped \/ stopped)
          /\ activePage < NumPages
          /\ activePage' = activePage + 1
          /\ rendered' \in 0..Len(pages[activePage + 1])
          /\ checkpoint' = saveState(checkpoint, [lastPage |-> activePage + 1])
          /\ processedIndex' = 0
          /\ pc' = "loop"
    /\ UNCHANGED <<procVars, applicantName, attempt, svcStopped, pages,
                   budgetVars, jobHist, runHist, itemHist, recoverVars,
                   pagerVars, otherVars>>

\* ------------------------------------------------ pause / resume / stop
Pause ==
    /\ Running
    /\ userOps < MaxUserOps
    /\ ~paused
    /\ paused' = TRUE
    /\ checkpoint' = saveProgress(checkpoint, TRUE, TRUE, stopped,
                         processedApplicants, downloadCount, failedApplicants)
    /\ userOps' = userOps + 1
    /\ UNCHANGED <<downloadCount, failedApplicants, stopped, processedApplicants,
                   virusScanRedirectCount, loopVars, svcStopped, envVars, runs,
                   faults, itemFaulty, jobHist, runHist, itemHist, recoverVars,
                   pagerVars, otherVars>>

Resume ==
    /\ Running
    /\ paused
    /\ paused' = FALSE
    /\ UNCHANGED <<downloadCount, failedApplicants, stopped, processedApplicants,
                   virusScanRedirectCount, loopVars, svcStopped, checkpoint,
                   envVars, budgetVars, jobHist, runHist, itemHist, recoverVars,
                   pagerVars, otherVars>>

Stop ==
    /\ Running
    /\ userOps < MaxUserOps
    /\ ~svcStopped
    /\ svcStopped' = TRUE
    /\ stopped' = TRUE
    /\ checkpoint' = saveProgress(checkpoint, TRUE, paused, TRUE,
                         processedApplicants, downloadCount, failedApplicants)
    /\ userOps' = userOps + 1
    /\ UNCHANGED <<downloadCount, failedApplicants, paused, processedApplicants,
                   virusScanRedirectCount, loopVars, envVars, runs, faults,
                   itemFaulty, jobHist, runHist, itemHist, recoverVars,
                   pagerVars, otherVars>>

\* the process is killed: the engine's memory is gone, the checkpoint file and
\* the artifacts written so far stay
Kill ==
    /\ Running
    /\ runs < MaxRuns
    /\ pc' = "idle" /\ processedIndex' = 0 /\ applicantName' = NoName
    /\ attempt' = 0
    /\ downloadCount' = 0 /\ failedApplicants' = <<>> /\ stopped' = FALSE
    /\ paused' = FALSE /\ processedApplicants' = {} /\ virusScanRedirectCount' = 0
    /\ svcStopped' = FALSE
    /\ itemFaulty' = FALSE
    /\ ItemHistoryReset(0, 0, 0) /\ RunHistoryReset
    /\ resumed' = FALSE /\ hydratedP' = {}
    /\ UNCHANGED <<checkpoint, envVars, runs, userOps, faults, jobHist,
                   recoverVars,
                   pagerVars, otherVars>>

Engine == LoopTop \/ ItemStart \/ SelectAttempt \/ DownloadAttempt
          \/ ReloadRecovery \/ AfterItem \/ PageDone

Next ==
    \/ \E resume \in BOOLEAN : StartDownload(resume)
    \/ Engine
    \/ Pause \/ Resume \/ Stop
    \/ Kill

Spec == Init /\ [][Next]_vars

\* one run that is not killed, over a list one row longer
InitOneRun == InitWith(Layouts(RowLists(MaxRows + 1)), MaxRuns - 1)

NextOneRun ==
    \/ \E resume \in BOOLEAN : StartDownload(resume)
    \/ Engine
    \/ Pause \/ Resume \/ Stop

SpecOneRun == InitOneRun /\ [][NextOneRun]_vars

\* ------------------------------------ ApplicantProcessor._recoverListState
\* The scroll-recovery loop on its own: the list renders listCount rows, and a
\* scroll or a reload may change that number in any way.
mainVars == <<procVars, loopVars, svcStopped, checkpoint, envVars, budgetVars,
              jobHist, runHist, itemHist>>

InitRecover ==
    /\ pages = <<<<NoName>>>>
    /\ activePage = 1 /\ rendered = 0
    /\ checkpoint = EmptyState
    /\ pc = "idle" /\ processedIndex = 0 /\ applicantName = NoName /\ attempt = 0
    /\ ProcessorNew
    /\ svcStopped = FALSE
    /\ runs = 0 /\ userOps = 0 /\ faults = 0 /\ itemFaulty = FALSE
    /\ jobNo = 0 /\ artifacts = {} /\ jobSuccesses = 0 /\ redownloaded = FALSE
    /\ resumed = FALSE /\ hydratedP = {}
    /\ succeeded = {} /\ dupSuccess = FALSE /\ visited = 0 /\ reloads = 0
    /\ recoveryExhausted = FALSE /\ itemSelect = "none"
    /\ itemClicked = FALSE /\ itemTried = FALSE /\ itemWasDup = FALSE
    /\ itemOutcome = {} /\ itemReloads = 0
    /\ itemSeen = {} /\ itemBase = ItemBase(0, 0, 0) /\ itemBreak = FALSE
    /\ rpc = "run"
    /\ targetIndex \in 0..MaxList
    /\ listCount \in 0..MaxList
    /\ recoveredCount = 0 /\ retryScrolls = 0 /\ stagnantCount = 0
    /\ lastCount = 0 /\ scrollAttempts = 0
    /\ PagerIdle
    /\ StoreIdle
    /\ ExtractorIdle
    /\ LaterIdle

\* what the stagnation branch leaves in retryScrolls
RetriesAfterStagnation(retries) == 0

\* one pass of while (retryScrolls < MAX_SCROLL_RETRIES)
RecoverIterate ==
    /\ rpc = "run"
    /\ retryScrolls < MAX_SCROLL_RETRIES
    /\ recoveredCount' = listCount
    /\ IF listCount > targetIndex
       THEN \* break: the cursor row is rendered
            /\ rpc' = "ok"
            /\ UNCHANGED <<retryScrolls, stagnantCount, lastCount, listCount,
                           scrollAttempts>>
       ELSE IF listCount = lastCount /\ stagnantCount + 1 >= STAGNANT_LIMIT
       THEN \* stuck: reload the page, reset the counters, continue
            /\ listCount' \in 0..MaxList
            /\ stagnantCount' = 0
            /\ retryScrolls' = RetriesAfterStagnation(retryScrolls)
            /\ lastCount' = 0
            /\ UNCHANGED <<rpc, scrollAttempts>>
       ELSE \* scroll the container and the window, wait, count the attempt
            /\ stagnantCount' = IF listCount = lastCount THEN stagnantCount + 1 ELSE 0
            /\ lastCount' = listCount
            /\ listCount' \in 0..MaxList
            /\ retryScrolls' = retryScrolls + 1
            /\ scrollAttempts' = IF scrollAttempts > MAX_SCROLL_RETRIES
                                 THEN scrollAttempts ELSE scrollAttempts + 1
            /\ UNCHANGED rpc
    /\ UNCHANGED <<targetIndex, mainVars, pagerVars, otherVars>>

\* the loop ended by its bound: the final test
RecoverExhausted ==
    /\ rpc = "run"
    /\ retryScrolls >= MAX_SCROLL_RETRIES
    /\ rpc' = IF recoveredCount <= targetIndex THEN "failed" ELSE "ok"
    /\ UNCHANGED <<targetIndex, recoveredCount, retryScrolls, stagnantCount,
                   lastCount, listCount, scrollAttempts, mainVars,
                   pagerVars, otherVars>>

NextRecover == RecoverIterate \/ RecoverExhausted

SpecRecover == InitRecover /\ [][NextRecover]_vars

\* ------------------------------------------------------- PaginationManager
\* The pagination bar is the environment. Its page-buttons are the numbers
\* in visible, in increasing order. The active-page indicator
\* (button[aria-current="true"]) reads in one of four ways: "number" (its
\* text is the number of the page shown), "text" (its text has no leading
\* digits), "absent" (no such button), "error" (a locator read of it
\* rejects, as a strict-mode violation does when two bars are rendered,
\* while document.querySelector still finds the first one).
IndicatorKinds == {"number", "text", "absent", "error"}
Ellipsis == "..."
NaN == -1
PageNumbers == 1..(MaxPage + MaxTarget)

\* innerText of the active-page button
ActiveText(kind, page) == IF kind = "text" THEN Ellipsis ELSE ToString(page)

\* parseInt(text): the number a digit string denotes, NaN for any other text
parseInt(text) ==
    IF \E n \in PageNumbers : ToString(n) = text
    THEN CHOOSE n \in PageNumbers : ToString(n) = text
    ELSE NaN

\* JavaScript comparisons: false when an operand is NaN
JsLess(a, b) == a # NaN /\ b # NaN /\ a < b
JsGreater(a, b) == JsLess(b, a)
JsGeq(a, b) == a # NaN /\ b # NaN /\ a >= b

\* PaginationManager.getActivePageNumber
getActivePageNumber(kind, page) ==
    IF kind = "error" THEN 1            \* the read rejects: caught, default
    ELSE IF kind = "absent" THEN 1      \* count() is 0: default
    ELSE parseInt(ActiveText(kind, page))

\* the rendered page items, in document order
PageItems(shown) ==
    CHOOSE f \in [1..Cardinality(shown) -> shown] :
        \A i, j \in 1..Cardinality(shown) : i < j => f[i] < f[j]
\* pages.nth(i).locator('button[aria-current="true"]').count() > 0
IsCurrentFlags(kind, page, items) ==
    [i \in 1..Len(items) |-> kind # "absent" /\ items[i] = page]
\* activeBtn.count()
ActiveCount(kind) == IF kind = "absent" THEN 0 ELSE 1

\* the index (from 0) of the first page item holding the indicator, else -1
FirstCurrent(flags) ==
    IF \E i \in 1..Len(flags) : flags[i]
    THEN (CHOOSE i \in 1..Len(flags) :
              flags[i] /\ \A j \in 1..(i - 1) : ~flags[j]) - 1
    ELSE -1

\* PaginationManager.isNextPageAvailable
isNextPageAvailableOffByOne(activeCount, flags) ==
    IF activeCount = 0 THEN FALSE
    ELSE LET activeIndex == FirstCurrent(flags)
         IN activeIndex # -1 /\ activeIndex < Len(flags)
isNextPageAvailable(activeCount, flags) ==
    IF activeCount = 0 THEN FALSE
    ELSE LET activeIndex == FirstCurrent(flags)
         IN activeIndex # -1 /\ activeIndex + 1 < Len(flags)

\* the remote UI moves to page dest and renders its bar again
Rerender(dest) ==
    /\ uiPage' = dest
    /\ visible' \in {S \in SUBSET (1..totalPages) : dest \in S}
    /\ indicator' \in IndicatorKinds
    /\ UNCHANGED <<totalPages, nextShown>>

\* the predicate polled by waitForFunction after the click of
\* switchToNextPage: newPage is a number and newPage > oldPage
PollSeesIncrease(kind, page, oldPage) ==
    /\ kind \in {"number", "error"}
    /\ JsGreater(parseInt(ToString(page)), oldPage)

SwitchResult(from, to, oldPage, result) ==
    [from |-> from, to |-> to, oldPage |-> oldPage, result |-> result]

\* PaginationManager.switchToNextPage
switchToNextPage ==
    LET oldPage == IF indicator \in {"absent", "error"}
                   THEN 1       \* innerText rejects: default to 1
                   ELSE parseInt(ActiveText(indicator, uiPage))
        items == PageItems(visible)
        i == FirstCurrent(IsCurrentFlags(indicator, uiPage, items)) + 1
        hasFollowing == i >= 1 /\ i < Len(items)
        dest == IF nextShown THEN uiPage + 1
                ELSE IF hasFollowing THEN items[i + 1] ELSE 0
    IN
    IF ~nextShown /\ ~hasFollowing
    THEN \* no click target: 'Could not find "Next" button', return false
         /\ lastSwitch' = SwitchResult(uiPage, uiPage, oldPage, "false")
         /\ UNCHANGED domVars
    ELSE \/ \* clickTarget.click() rejects: the error leaves the method
            /\ lastSwitch' = SwitchResult(uiPage, uiPage, oldPage, "threw")
            /\ UNCHANGED domVars
         \/ \* the click is made and the UI does not move
            /\ lastSwitch' =
                 SwitchResult(uiPage, uiPage, oldPage,
                     IF PollSeesIncrease(indicator, uiPage, oldPage)
                     THEN "true" ELSE "false")
            /\ UNCHANGED domVars
         \/ \* the click is made and the UI moves to the following page
            /\ dest <= totalPages
            /\ Rerender(dest)
            /\ lastSwitch' =
                 SwitchResult(uiPage, dest, oldPage,
                     IF PollSeesIncrease(indicator', dest, oldPage)
                     THEN "true" ELSE "false")

\* the PaginationManager is called while no navigateToPage is under way
Call ==
    /\ ppc = "idle"
    /\ calls < MaxCalls
    /\ calls' = calls + 1

\* a call of getActivePageNumber
ReadActivePage ==
    /\ Call
    /\ lastRead' = [kind |-> indicator, shown |-> uiPage,
                    value |-> getActivePageNumber(indicator, uiPage)]
    /\ UNCHANGED <<mainVars, recoverVars, otherVars, domVars, seekVars, nextAvailable,
                   lastSwitch>>

\* a call of isNextPageAvailable
CheckNextPage ==
    /\ Call
    /\ nextAvailable' =
         IF isNextPageAvailable(ActiveCount(indicator),
                IsCurrentFlags(indicator, uiPage, PageItems(visible)))
         THEN "true" ELSE "false"
    /\ UNCHANGED <<mainVars, recoverVars, otherVars, domVars, seekVars, lastRead,
                   lastSwitch>>

\* a call of switchToNextPage from runProcessingLoop
AdvancePage ==
    /\ Call
    /\ switchToNextPage
    /\ UNCHANGED <<mainVars, recoverVars, otherVars, seekVars, lastRead, nextAvailable>>

\* PaginationManager.navigateToPage up to its while loop
NavigateStart(target) ==
    /\ Call
    /\ navTarget' = target
    /\ loopCounter' = 0
    /\ warned' = FALSE
    /\ IF target <= 1
       THEN /\ ppc' = "skipped"
            /\ UNCHANGED currentPage
       ELSE /\ ppc' = "loop"
            /\ currentPage' = getActivePageNumber(indicator, uiPage)
    /\ UNCHANGED <<mainVars, recoverVars, otherVars, domVars, lastRead, nextAvailable,
                   lastSwitch>>

\* the activation wait after the click on the target's button
TargetIsActive(kind, page) ==
    kind \in {"number", "error"} /\ parseInt(ToString(page)) = navTarget

\* 1. the button of the target page is rendered: click it, wait, return
ExactClick ==
    /\ \/ \* btn.click() rejects
          /\ ppc' = "threw"
          /\ UNCHANGED <<domVars, warned>>
       \/ \* the UI does not move
          /\ UNCHANGED domVars
          /\ warned' = (warned \/ ~TargetIsActive(indicator, uiPage))
          /\ ppc' = "returned"
       \/ \* the UI moves to the target page
          /\ Rerender(navTarget)
          /\ warned' = (warned \/ ~TargetIsActive(indicator', navTarget))
          /\ ppc' = "returned"
    /\ UNCHANGED <<currentPage, lastSwitch>>

\* 2. the largest rendered number between the current page and the target
JumpCandidates == {n \in visible : JsGreater(n, currentPage) /\ n < navTarget}
BestJumpLowest == CHOOSE n \in JumpCandidates : \A m \in JumpCandidates : n <= m
BestJump == CHOOSE n \in JumpCandidates : \A m \in JumpCandidates : m <= n

SmartJump ==
    /\ \/ \* bestJumpBtn.click() rejects
          /\ ppc' = "threw"
          /\ UNCHANGED <<domVars, currentPage>>
       \/ \* the UI does not move
          /\ UNCHANGED domVars
          /\ currentPage' = getActivePageNumber(indicator, uiPage)
          /\ ppc' = "loop"
       \/ \* the UI moves to the page clicked
          /\ Rerender(BestJump)
          /\ currentPage' = getActivePageNumber(indicator', BestJump)
          /\ ppc' = "loop"
    /\ UNCHANGED <<warned, lastSwitch>>

\* 3. the Next control, through switchToNextPage
NextFallback ==
    LET now == getActivePageNumber(indicator, uiPage) IN
    IF JsGeq(now, navTarget)
    THEN /\ ppc' = "returned"
         /\ currentPage' = now
         /\ UNCHANGED <<domVars, warned, lastSwitch>>
    ELSE /\ switchToNextPage
         /\ ppc' = CASE lastSwitch'.result = "threw" -> "threw"
                     [] lastSwitch'.result = "false" -> "returned"
                     [] OTHER -> "loop"
         /\ warned' = (warned \/ lastSwitch'.result = "false")
         /\ currentPage' = IF lastSwitch'.result = "true"
                           THEN getActivePageNumber(indicator', uiPage')
                           ELSE now

\* one evaluation of while (currentPage < targetPage) and of its body
NavigateIterate ==
    /\ ppc = "loop"
    /\ IF ~JsLess(currentPage, navTarget)
       THEN /\ ppc' = "returned"
            /\ UNCHANGED <<domVars, currentPage, loopCounter, warned,
                           lastSwitch>>
       ELSE /\ loopCounter' = loopCounter + 1
            /\ IF loopCounter + 1 > MAX_LOOPS
               THEN \* 'Pagination infinite loop detected': warn, break
                    /\ warned' = TRUE
                    /\ ppc' = "returned"
                    /\ UNCHANGED <<domVars, currentPage, lastSwitch>>
               ELSE IF navTarget \in visible THEN ExactClick
               ELSE IF JumpCandidates # {} THEN SmartJump
               ELSE NextFallback
    /\ UNCHANGED <<mainVars, recoverVars, otherVars, navTarget, lastRead, nextAvailable,
                   calls>>

\* the remote UI renders its bar again while navigateToPage waits between
\* two reads of it
BarRenders ==
    /\ ppc = "loop"
    /\ indicator' \in IndicatorKinds \ {indicator}
    /\ UNCHANGED <<mainVars, recoverVars, otherVars, uiPage, totalPages, visible,
                   nextShown, seekVars, lastRead, nextAvailable, lastSwitch,
                   calls>>

InitPager ==
    /\ pages = <<<<NoName>>>>
    /\ activePage = 1 /\ rendered = 0
    /\ checkpoint = EmptyState
    /\ pc = "idle" /\ processedIndex = 0 /\ applicantName = NoName /\ attempt = 0
    /\ ProcessorNew
    /\ svcStopped = FALSE
    /\ runs = 0 /\ userOps = 0 /\ faults = 0 /\ itemFaulty = FALSE
    /\ jobNo = 0 /\ artifacts = {} /\ jobSuccesses = 0 /\ redownloaded = FALSE
    /\ resumed = FALSE /\ hydratedP = {}
    /\ succeeded = {} /\ dupSuccess = FALSE /\ visited = 0 /\ reloads = 0
    /\ recoveryExhausted = FALSE /\ itemSelect = "none"
    /\ itemClicked = FALSE /\ itemTried = FALSE /\ itemWasDup = FALSE
    /\ itemOutcome = {} /\ itemReloads = 0
    /\ itemSeen = {} /\ itemBase = ItemBase(0, 0, 0) /\ itemBreak = FALSE
    /\ RecoverIdle
    /\ totalPages \in 1..MaxPage
    /\ uiPage \in 1..totalPages
    /\ visible \in SUBSET (1..totalPages)
    /\ indicator \in IndicatorKinds
    /\ nextShown \in BOOLEAN
    /\ ppc = "idle" /\ navTarget = 0 /\ currentPage = 0 /\ loopCounter = 0
    /\ warned = FALSE
    /\ lastRead = NoRead /\ nextAvailable = "none" /\ lastSwitch = NoSwitch
    /\ calls = 0
    /\ StoreIdle
    /\ ExtractorIdle
    /\ LaterIdle

NextPager ==
    \/ ReadActivePage
    \/ CheckNextPage
    \/ AdvancePage
    \/ \E target \in 1..MaxTarget : NavigateStart(target)
    \/ NavigateIterate
    \/ BarRenders

SpecPager == InitPager /\ [][NextPager]_vars

\* ------------------------------------------------------------ StateManager
\* saveState is asynchronous: it reads the file (await this.loadState()),
\* merges, and writes (await fs.writeFile). The calls of the processing loop
\* and of the pause / stop handlers can be under way together, so the read
\* and the write of one call are separate steps.

\* const merged = { ...current, ...newState }
Merged(current, newState) ==
    [k \in (DOMAIN current) \cup (DOMAIN newState) |->
        IF k \in DOMAIN newState THEN newState[k] ELSE current[k]]

\* what the callers write: runProcessingLoop the page number, the handlers
\* (through _saveProgress(true)) the progress of the processor
UpdatesOf(caller) ==
    IF caller = "loop"
    THEN {[lastPage |-> p] : p \in 2..NumSavedPages}
    ELSE {ProgressRecord(P, Cardinality(P), <<>>) : P \in SUBSET {"A"}}

\* saveState up to and including const current = await this.loadState()
SaveRead(caller, newState) ==
    /\ saving[caller].phase = "idle"
    /\ saving' = [saving EXCEPT ![caller] =
                    [phase |-> "read", current |-> loadState(checkpoint),
                     update |-> newState]]
    /\ UNCHANGED <<mainVars, recoverVars, pagerVars, nameVars, laterVars>>

\* the rest of saveState: merge and fs.writeFile
SaveWrite(caller) ==
    /\ saving[caller].phase = "read"
    /\ checkpoint' = Merged(saving[caller].current, saving[caller].update)
    /\ saving' = [saving EXCEPT ![caller] = NotSaving]
    /\ UNCHANGED <<procVars, loopVars, svcStopped, envVars, budgetVars,
                   jobHist, runHist, itemHist, recoverVars, pagerVars,
                   nameVars, laterVars>>

InitStore ==
    /\ pages = <<<<NoName>>>>
    /\ activePage = 1 /\ rendered = 0
    /\ checkpoint \in {EmptyState, saveState(EmptyState, InitialState(1))}
    /\ pc = "idle" /\ processedIndex = 0 /\ applicantName = NoName /\ attempt = 0
    /\ ProcessorNew
    /\ svcStopped = FALSE
    /\ runs = 0 /\ userOps = 0 /\ faults = 0 /\ itemFaulty = FALSE
    /\ jobNo = 0 /\ artifacts = {} /\ jobSuccesses = 0 /\ redownloaded = FALSE
    /\ resumed = FALSE /\ hydratedP = {}
    /\ succeeded = {} /\ dupSuccess = FALSE /\ visited = 0 /\ reloads = 0
    /\ recoveryExhausted = FALSE /\ itemSelect = "none"
    /\ itemClicked = FALSE /\ itemTried = FALSE /\ itemWasDup = FALSE
    /\ itemOutcome = {} /\ itemReloads = 0
    /\ itemSeen = {} /\ itemBase = ItemBase(0, 0, 0) /\ itemBreak = FALSE
    /\ RecoverIdle
    /\ PagerIdle
    /\ StoreIdle
    /\ ExtractorIdle
    /\ LaterIdle

NextStore ==
    \/ \E caller \in Callers : \E newState \in UpdatesOf(caller) :
          SaveRead(caller, newState)
    \/ \E caller \in Callers : SaveWrite(caller)

SpecStore == InitStore /\ [][NextStore]_vars

\* -------------------------------------------------- ApplicantNameExtractor
\* A text is a sequence of tokens: words (adjacent words form one longer
\* word), the space, the line break and the status dot. "fotografi" stands
\* for the Turkish word of the image alt text, "Uyesi" for the one of the
\* placeholder label.
Tokens == {"J", "Jo", "LinkedIn", "Member", "application", " ", "<nl>", "<dot>"}
TokenLength(tok) ==
    CASE tok = "J" -> 1
      [] tok = "Jo" -> 2
      [] tok = "LinkedIn" -> 8
      [] tok = "Member" -> 6
      [] tok = "application" -> 11
      [] tok = "fotografi" -> 9
      [] tok = "<dot>" -> 1
      [] OTHER -> 1
IsWord(tok) == tok \notin {" ", "<nl>", "<dot>"}
IsSpace(tok) == tok \in {" ", "<nl>"}

\* this.invalidNames
invalidNames == {<<"LinkedIn", " ", "Uyesi">>, <<"LinkedIn", " ", "Member">>,
                 <<"Unknown">>, <<"Gizli">>}

RECURSIVE CharLength(_)
CharLength(text) ==
    IF text = <<>> THEN 0 ELSE TokenLength(Head(text)) + CharLength(Tail(text))

\* the tokens of text at the positions in keep, in order
RECURSIVE Pick(_, _, _)
Pick(text, keep, i) ==
    IF i > Len(text) THEN <<>>
    ELSE (IF i \in keep THEN <<text[i]>> ELSE <<>>) \o Pick(text, keep, i + 1)

\* String.prototype.trim
Trim(text) ==
    LET solid == {i \in 1..Len(text) : ~IsSpace(text[i])} IN
    IF solid = {} THEN <<>>
    ELSE SubSeq(text, CHOOSE i \in solid : \A j \in solid : i <= j,
                      CHOOSE i \in solid : \A j \in solid : j <= i)

\* String.prototype.includes
Includes(text, part) ==
    \E i \in 1..(Len(text) - Len(part) + 1) :
        SubSeq(text, i, i + Len(part) - 1) = part

\* text.split('\n')[0]
FirstLine(text) ==
    LET breaks == {i \in 1..Len(text) : text[i] = "<nl>"} IN
    IF breaks = {} THEN text
    ELSE SubSeq(text, 1, (CHOOSE i \in breaks : \A j \in breaks : i <= j) - 1)

\* ApplicantNameExtractor._isValidName
isValidName(text) ==
    /\ text # <<>>
    /\ CharLength(Trim(text)) >= MIN_NAME_LENGTH
    /\ \A invalid \in invalidNames : ~Includes(Trim(text), invalid)

\* ApplicantNameExtractor._cleanName, replacement by replacement: line
\* breaks to spaces, runs of spaces to one, the suffix word removed where it
\* stands between word boundaries, everything from the status dot on
\* removed, trim
cleanName(text) ==
    LET NoLineBreaks(t) == [i \in 1..Len(t) |-> IF t[i] = "<nl>" THEN " " ELSE t[i]]
        OneSpace(t) ==
            Pick(t, {i \in 1..Len(t) : ~(t[i] = " " /\ i > 1 /\ t[i - 1] = " ")}, 1)
        NoSuffix(t) ==
            Pick(t, {i \in 1..Len(t) :
                       ~(/\ t[i] = "application"
                         /\ (i = 1 \/ ~IsWord(t[i - 1]))
                         /\ (i = Len(t) \/ ~IsWord(t[i + 1])))}, 1)
        NoStatus(t) ==
            LET dots == {i \in 1..Len(t) : t[i] = "<dot>"} IN
            IF dots = {} THEN t
            ELSE SubSeq(t, 1, (CHOOSE i \in dots : \A k \in dots : i <= k) - 1)
    IN Trim(NoStatus(NoSuffix(OneSpace(NoLineBreaks(text)))))

\* alt.replace(/\s+fotografi$/i, '').trim()
CleanAlt(text) ==
    LET n == Len(text) IN
    Trim(IF n >= 2 /\ text[n] = "fotografi" /\ IsSpace(text[n - 1])
         THEN SubSeq(text, 1, n - 2) ELSE text)

\* extractName with the nested link consulted before the lockup title
extractNameLinkFirst(row) ==
    IF row.readFails THEN <<>>
    ELSE IF row.title.present /\ isValidName(row.title.text)
    THEN cleanName(row.title.text)
    ELSE IF row.link.present /\ isValidName(row.link.text)
    THEN cleanName(row.link.text)
    ELSE IF row.lockup.present /\ isValidName(FirstLine(row.lockup.text))
    THEN cleanName(FirstLine(row.lockup.text))
    ELSE IF row.alt.present /\ row.alt.text # <<>>
            /\ isValidName(CleanAlt(row.alt.text))
    THEN CleanAlt(row.alt.text)
    ELSE <<>>

\* ApplicantNameExtractor.extractName
extractName(row) ==
    IF row.readFails THEN <<>>      \* a locator call rejects: caught, ''
    ELSE IF row.title.present /\ isValidName(row.title.text)
    THEN cleanName(row.title.text)
    ELSE IF row.lockup.present /\ isValidName(FirstLine(row.lockup.text))
    THEN cleanName(FirstLine(row.lockup.text))
    ELSE IF row.link.present /\ isValidName(row.link.text)
    THEN cleanName(row.link.text)
    ELSE IF row.alt.present /\ row.alt.text # <<>>
            /\ isValidName(CleanAlt(row.alt.text))
    THEN CleanAlt(row.alt.text)
    ELSE <<>>

\* a call of extractName on a row
ExtractName ==
    /\ ~extracted.done
    /\ extracted' = [done |-> TRUE, name |-> extractName(rowTexts)]
    /\ UNCHANGED <<mainVars, recoverVars, pagerVars, saving, rowTexts, laterVars>>

\* extractName is about to be called on a row: the title element holds any
\* text of up to MaxTokens tokens
InitExtract ==
    /\ pages = <<<<NoName>>>>
    /\ activePage = 1 /\ rendered = 0
    /\ checkpoint = EmptyState
    /\ pc = "idle" /\ processedIndex = 0 /\ applicantName = NoName /\ attempt = 0
    /\ ProcessorNew
    /\ svcStopped = FALSE
    /\ runs = 0 /\ userOps = 0 /\ faults = 0 /\ itemFaulty = FALSE
    /\ jobNo = 0 /\ artifacts = {} /\ jobSuccesses = 0 /\ redownloaded = FALSE
    /\ resumed = FALSE /\ hydratedP = {}
    /\ succeeded = {} /\ dupSuccess = FALSE /\ visited = 0 /\ reloads = 0
    /\ recoveryExhausted = FALSE /\ itemSelect = "none"
    /\ itemClicked = FALSE /\ itemTried = FALSE /\ itemWasDup = FALSE
    /\ itemOutcome = {} /\ itemReloads = 0
    /\ itemSeen = {} /\ itemBase = ItemBase(0, 0, 0) /\ itemBreak = FALSE
    /\ RecoverIdle
    /\ PagerIdle
    /\ StoreIdle
    /\ LET Texts == UNION {[1..n -> Tokens] : n \in 0..MaxTokens}
           TitleElements == {NoElement} \cup {Element(t) : t \in Texts}
           OtherElements ==
               {NoElement, Element(<<"Jo">>), Element(<<"J", "<nl>", "Jo">>),
                Element(<<"Jo", " ", "fotografi">>)}
       IN rowTexts \in [title : TitleElements, lockup : OtherElements,
                        link : OtherElements, alt : OtherElements,
                        readFails : BOOLEAN]
    /\ extracted = [done |-> FALSE, name |-> <<>>]
    /\ LaterIdle

SpecExtract == InitExtract /\ [][ExtractName]_vars

\* ------------------------- ApplicantProcessor._selectAndVerifyApplicant
\* the element a click lands on: the row container or the safe sub-target
\* inside it

\* processSingleApplicant: const clickTarget = applicantLocator, and the row
\* locator again as fallbackLocator
clickTarget(row) == "row"
fallbackTarget(row) == "row"

Click(locator, element, force) ==
    [locator |-> locator, element |-> element, force |-> force]

\* the click of one attempt
AttemptClick(try, row) ==
    IF try = 1 THEN Click("targetLocator", clickTarget(row), FALSE)
    ELSE IF row.fallbackGiven
    THEN Click("fallbackLocator", fallbackTarget(row), TRUE)
    ELSE Click("targetLocator", clickTarget(row), TRUE)

\* _selectAndVerifyApplicant(targetLocator, applicantName, fallbackLocator)
\* is called on a row
SelectStart ==
    /\ spc = "off"
    /\ sRow' \in [hasSafe : BOOLEAN, fallbackGiven : BOOLEAN]
    /\ spc' = "scroll" /\ sAttempt' = 1 /\ sClicks' = <<>>
    /\ sResult' = "none" /\ sVerifiedAt' = 0
    /\ UNCHANGED <<mainVars, recoverVars, pagerVars, saving, nameVars,
                   contextVars, locateVars, fileVars>>

\* scrollIntoView, or scrollIntoViewIfNeeded when it throws
SelectScroll ==
    /\ spc = "scroll"
    /\ \/ spc' = "click" /\ UNCHANGED sResult
       \/ spc' = "done" /\ sResult' = "threw"
    /\ UNCHANGED <<mainVars, recoverVars, pagerVars, saving, nameVars,
                   contextVars, locateVars, fileVars, sAttempt, sRow, sClicks, sVerifiedAt>>

\* the click of the attempt
SelectClick ==
    /\ spc = "click"
    /\ \/ /\ sClicks' = Append(sClicks, AttemptClick(sAttempt, sRow))
          /\ spc' = "verify" /\ UNCHANGED sResult
       \/ \* the click rejects
          /\ spc' = "done" /\ sResult' = "threw" /\ UNCHANGED sClicks
    /\ UNCHANGED <<mainVars, recoverVars, pagerVars, saving, nameVars,
                   contextVars, locateVars, fileVars, sAttempt, sRow, sVerifiedAt>>

\* selectionSuccess = await this.waitForDetailsPanel(applicantName)
SelectVerify ==
    /\ spc = "verify"
    /\ \E selectionSuccess \in BOOLEAN :
          IF selectionSuccess
          THEN /\ sVerifiedAt' = sAttempt
               /\ spc' = "done" /\ sResult' = "true"
               /\ UNCHANGED sAttempt
          ELSE IF sAttempt < RETRY_ATTEMPTS
          THEN /\ sAttempt' = sAttempt + 1
               /\ spc' = "scroll"
               /\ UNCHANGED <<sResult, sVerifiedAt>>
          ELSE /\ spc' = "done" /\ sResult' = "false"
               /\ UNCHANGED <<sAttempt, sVerifiedAt>>
    /\ UNCHANGED <<mainVars, recoverVars, pagerVars, saving, nameVars,
                   contextVars, locateVars, fileVars, sRow, sClicks>>

InitSelect ==
    /\ pages = <<<<NoName>>>>
    /\ activePage = 1 /\ rendered = 0
    /\ checkpoint = EmptyState
    /\ pc = "idle" /\ processedIndex = 0 /\ applicantName = NoName /\ attempt = 0
    /\ ProcessorNew
    /\ svcStopped = FALSE
    /\ runs = 0 /\ userOps = 0 /\ faults = 0 /\ itemFaulty = FALSE
    /\ jobNo = 0 /\ artifacts = {} /\ jobSuccesses = 0 /\ redownloaded = FALSE
    /\ resumed = FALSE /\ hydratedP = {}
    /\ succeeded = {} /\ dupSuccess = FALSE /\ visited = 0 /\ reloads = 0
    /\ recoveryExhausted = FALSE /\ itemSelect = "none"
    /\ itemClicked = FALSE /\ itemTried = FALSE /\ itemWasDup = FALSE
    /\ itemOutcome = {} /\ itemReloads = 0
    /\ itemSeen = {} /\ itemBase = ItemBase(0, 0, 0) /\ itemBreak = FALSE
    /\ RecoverIdle
    /\ PagerIdle
    /\ StoreIdle
    /\ ExtractorIdle
    /\ LaterIdle

NextSelect == SelectStart \/ SelectScroll \/ SelectClick \/ SelectVerify

SpecSelect == InitSelect /\ [][NextSelect]_vars

\* ------------------------------- ApplicantProcessor._ensurePageContext
\* the pages the browser can be on: the applicants list, the premium survey,
\* any other page
Urls == {"list", "survey", "other"}

\* currentUrl.includes('premium/survey') || !currentUrl.includes('/hiring/jobs')
OffList(url) == url # "list"

\* the catch block of the retry loop: if (attempts === 3) throw e
ContextCatch(attempts) ==
    IF attempts = CONTEXT_ATTEMPTS
    THEN cpc' = "done" /\ cResult' = "threw"
    ELSE cpc' = "goto" /\ UNCHANGED cResult

\* the loop condition after continue: while (attempts < 3), else the
\* statement after the if: return false
ContextContinue(attempts) ==
    IF attempts < CONTEXT_ATTEMPTS
    THEN cpc' = "goto" /\ UNCHANGED cResult
    ELSE cpc' = "done" /\ cResult' = "already"

\* _ensurePageContext(requiredCount) is called: the URL test
EnsureStart ==
    /\ cpc = "off"
    /\ cUrl' \in Urls
    /\ cRequired' \in 0..MaxList
    /\ cAttempts' = 0 /\ cListCount' = 0
    /\ IF OffList(cUrl')
       THEN cpc' = "goto" /\ cResult' = "none"
       ELSE cpc' = "done" /\ cResult' = "already"
    /\ UNCHANGED <<mainVars, recoverVars, pagerVars, saving, nameVars,
                   selectVars, locateVars, fileVars>>

\* attempts++, page.goto(applicantsUrl)
EnsureGoto ==
    /\ cpc = "goto"
    /\ cAttempts' = cAttempts + 1
    /\ cUrl' \in Urls
    /\ \/ cpc' = "settle" /\ UNCHANGED cResult
       \/ ContextCatch(cAttempts')
    /\ UNCHANGED <<mainVars, recoverVars, pagerVars, saving, nameVars,
                   selectVars, locateVars, fileVars, cRequired, cListCount>>

\* waitForTimeout(3000), then the survey test on the URL the page has now
EnsureSettle ==
    /\ cpc = "settle"
    /\ cUrl' \in Urls
    /\ IF cUrl' = "survey"
       THEN ContextContinue(cAttempts)
       ELSE cpc' = "list" /\ UNCHANGED cResult
    /\ UNCHANGED <<mainVars, recoverVars, pagerVars, saving, nameVars,
                   selectVars, locateVars, fileVars, cAttempts, cRequired, cListCount>>

\* waitForSelector(APPLICATION_LIST)
EnsureList ==
    /\ cpc = "list"
    /\ \/ cUrl = "list" /\ cpc' = "recover" /\ UNCHANGED cResult
       \/ ContextCatch(cAttempts)
    /\ UNCHANGED <<mainVars, recoverVars, pagerVars, saving, nameVars,
                   selectVars, locateVars, fileVars, cAttempts, cUrl, cRequired, cListCount>>

\* _recoverListState(requiredCount) returns once more rows than requiredCount
\* are rendered, or throws; then return true
EnsureRecover ==
    /\ cpc = "recover"
    /\ \/ /\ cListCount' \in (cRequired + 1)..(MaxList + 1)
          /\ cpc' = "done" /\ cResult' = "restored"
       \/ ContextCatch(cAttempts) /\ UNCHANGED cListCount
    /\ UNCHANGED <<mainVars, recoverVars, pagerVars, saving, nameVars,
                   selectVars, locateVars, fileVars, cAttempts, cUrl, cRequired>>

InitContext ==
    /\ pages = <<<<NoName>>>>
    /\ activePage = 1 /\ rendered = 0
    /\ checkpoint = EmptyState
    /\ pc = "idle" /\ processedIndex = 0 /\ applicantName = NoName /\ attempt = 0
    /\ ProcessorNew
    /\ svcStopped = FALSE
    /\ runs = 0 /\ userOps = 0 /\ faults = 0 /\ itemFaulty = FALSE
    /\ jobNo = 0 /\ artifacts = {} /\ jobSuccesses = 0 /\ redownloaded = FALSE
    /\ resumed = FALSE /\ hydratedP = {}
    /\ succeeded = {} /\ dupSuccess = FALSE /\ visited = 0 /\ reloads = 0
    /\ recoveryExhausted = FALSE /\ itemSelect = "none"
    /\ itemClicked = FALSE /\ itemTried = FALSE /\ itemWasDup = FALSE
    /\ itemOutcome = {} /\ itemReloads = 0
    /\ itemSeen = {} /\ itemBase = ItemBase(0, 0, 0) /\ itemBreak = FALSE
    /\ RecoverIdle
    /\ PagerIdle
    /\ StoreIdle
    /\ ExtractorIdle
    /\ LaterIdle

NextContext ==
    EnsureStart \/ EnsureGoto \/ EnsureSettle \/ EnsureList \/ EnsureRecover

SpecContext == InitContext /\ [][NextContext]_vars

\* --------------------- ApplicantProcessor.tryDownloadCv: the download control
\* does the strategy find a control: the selector matches; for the menu, the
\* 'more actions' button is there and visible, the click on it does not
\* throw, and the opened menu holds a download item
Matches(strategy, dom) ==
    CASE strategy = "primary" -> dom.primary
      [] strategy = "fallback" -> dom.fallback
      [] strategy = "broad" -> dom.broad
      [] strategy = "menu" -> dom.more /\ ~dom.menuThrows /\ dom.menuItem

\* downloadBtn after the four blocks; "none" is count === 0
LocateAction(dom) ==
    LET afterPrimary == IF Matches("primary", dom) THEN "primary" ELSE "none"
        afterFallback == IF afterPrimary = "none" /\ Matches("fallback", dom)
                         THEN "fallback" ELSE afterPrimary
        afterBroad == IF Matches("broad", dom) THEN "broad" ELSE afterFallback
    IN IF afterBroad = "none" /\ Matches("menu", dom) THEN "menu" ELSE afterBroad

\* one download attempt resolves its control
Locate ==
    /\ lUsed = "pending"
    /\ lUsed' = LocateAction(lDom)
    /\ UNCHANGED <<mainVars, recoverVars, pagerVars, saving, nameVars,
                   selectVars, contextVars, fileVars, lDom>>

InitLocate ==
    /\ pages = <<<<NoName>>>>
    /\ activePage = 1 /\ rendered = 0
    /\ checkpoint = EmptyState
    /\ pc = "idle" /\ processedIndex = 0 /\ applicantName = NoName /\ attempt = 0
    /\ ProcessorNew
    /\ svcStopped = FALSE
    /\ runs = 0 /\ userOps = 0 /\ faults = 0 /\ itemFaulty = FALSE
    /\ jobNo = 0 /\ artifacts = {} /\ jobSuccesses = 0 /\ redownloaded = FALSE
    /\ resumed = FALSE /\ hydratedP = {}
    /\ succeeded = {} /\ dupSuccess = FALSE /\ visited = 0 /\ reloads = 0
    /\ recoveryExhausted = FALSE /\ itemSelect = "none"
    /\ itemClicked = FALSE /\ itemTried = FALSE /\ itemWasDup = FALSE
    /\ itemOutcome = {} /\ itemReloads = 0
    /\ itemSeen = {} /\ itemBase = ItemBase(0, 0, 0) /\ itemBreak = FALSE
    /\ RecoverIdle
    /\ PagerIdle
    /\ StoreIdle
    /\ ExtractorIdle
    /\ SelectIdle /\ ContextIdle /\ FilesIdle
    /\ lDom \in [primary : BOOLEAN, fallback : BOOLEAN, broad : BOOLEAN,
                 more : BOOLEAN, menuItem : BOOLEAN, menuThrows : BOOLEAN]
    /\ lUsed = "pending"

SpecLocate == InitLocate /\ [][Locate]_vars

\* ---------------------------------------------- ApplicantProcessor: file names
\* A file of the download directory is <<name, counter>>: counter 1 is the
\* original name, counter N >= 2 is `${nameWithoutExt}_v${N}${ext}`.
FileNames == {"ada", "bob"}

\* the while (true) loop of _getUniqueFilePath from `counter` on: fs.access
\* succeeds on an existing file (next counter), throws on a missing one (break)
RECURSIVE UniqueFrom(_, _, _)
UniqueFrom(dir, originalName, counter) ==
    IF <<originalName, counter>> \in dir
    THEN UniqueFrom(dir, originalName, counter + 1)
    ELSE <<originalName, counter>>

\* _getUniqueFilePath with a single existence test
getUniqueFilePathOnce(dir, originalName) ==
    IF <<originalName, 1>> \in dir THEN <<originalName, 2>>
    ELSE <<originalName, 1>>

\* ApplicantProcessor._getUniqueFilePath
getUniqueFilePath(dir, originalName) == UniqueFrom(dir, originalName, 1)

\* tryDownloadCv: the unique path is computed and the download saved to it
SaveAs(finalName) ==
    /\ Cardinality(files) < MaxFiles
    /\ savedFile' = getUniqueFilePath(files, finalName)
    /\ files' = files \cup {savedFile'}
    /\ UNCHANGED <<mainVars, recoverVars, pagerVars, saving, nameVars,
                   selectVars, contextVars, locateVars>>

InitFiles ==
    /\ pages = <<<<NoName>>>>
    /\ activePage = 1 /\ rendered = 0
    /\ checkpoint = EmptyState
    /\ pc = "idle" /\ processedIndex = 0 /\ applicantName = NoName /\ attempt = 0
    /\ ProcessorNew
    /\ svcStopped = FALSE
    /\ runs = 0 /\ userOps = 0 /\ faults = 0 /\ itemFaulty = FALSE
    /\ jobNo = 0 /\ artifacts = {} /\ jobSuccesses = 0 /\ redownloaded = FALSE
    /\ resumed = FALSE /\ hydratedP = {}
    /\ succeeded = {} /\ dupSuccess = FALSE /\ visited = 0 /\ reloads = 0
    /\ recoveryExhausted = FALSE /\ itemSelect = "none"
    /\ itemClicked = FALSE /\ itemTried = FALSE /\ itemWasDup = FALSE
    /\ itemOutcome = {} /\ itemReloads = 0
    /\ itemSeen = {} /\ itemBase = ItemBase(0, 0, 0) /\ itemBreak = FALSE
    /\ RecoverIdle
    /\ PagerIdle
    /\ StoreIdle
    /\ ExtractorIdle
    /\ SelectIdle /\ ContextIdle /\ LocateIdle
    /\ files \in SUBSET (FileNames \X (1..MaxVersion))
    /\ savedFile = <<>>

SpecFiles == InitFiles /\ [][\E finalName \in FileNames : SaveAs(finalName)]_vars

\* ===================================================== checked properties
FailureNames == {failedApplicants[i].name : i \in 1..Len(failedApplicants)}
SameJob == /\ "folderPath" \in DOMAIN checkpoint
           /\ "folderPath" \in DOMAIN checkpoint'
           /\ checkpoint'.folderPath = checkpoint.folderPath

\* C1 (idempotency): a row whose extracted identity is non-empty and already
\* in processedApplicants gets no selection click and no download attempt, and
\* the page loop still moves processedIndex forward by exactly one.
C1_DuplicateIsSkipped ==
    [][/\ itemWasDup' =>
            /\ ~itemClicked' /\ ~itemTried' /\ itemOutcome' = {}
            /\ pc' \notin {"select", "download", "reload"}
       /\ (itemWasDup /\ pc = "post" /\ pc' = "loop") =>
            processedIndex' = itemBase.index + 1]_vars

C1_Witness ==
    /\ itemWasDup /\ pc = "loop" /\ ~itemClicked
    /\ processedIndex = itemBase.index + 1

\* C2 (restart survivability): when a killed run is resumed from the
\* checkpoint, the restored downloadCount and processedApplicants account for
\* every artifact saved before the kill, so none is lost or downloaded again.
C2_RestartSurvivability ==
    [][(pc = "idle" /\ runs > 0 /\ pc' = "loop" /\ resumed') =>
            /\ downloadCount' = jobSuccesses
            /\ artifacts \subseteq processedApplicants']_vars

\* C3 (resume): after hydrateState from a checkpoint with processed set P and
\* count c, downloadCount starts at c and only rows whose identity is not in P
\* are selected and downloaded.
C3_ResumeSkipsProcessed ==
    [][/\ (pc \in {"idle", "done"} /\ pc' = "loop" /\ resumed') =>
            /\ downloadCount' = checkpoint.downloadCount
            /\ processedApplicants' = checkpoint.processedApplicants
       /\ (resumed' /\ (itemClicked' \/ itemTried')) =>
            applicantName' \notin hydratedP']_vars

\* C4 (monotonic checkpoint): over the saves of one job, neither the
\* downloadCount nor the size of processedApplicants written to the checkpoint
\* ever decreases.
C4_MonotonicCheckpoint ==
    [][SameJob =>
            /\ checkpoint'.downloadCount >= checkpoint.downloadCount
            /\ Cardinality(checkpoint'.processedApplicants)
                  >= Cardinality(checkpoint.processedApplicants)]_vars

\* C5 (transient retry): a row that raised VIRUS_SCAN_RELOAD_REQUIRED at most
\* 3 times is retried at the same cursor index after each reload recovery:
\* while it has no outcome yet, the cursor stays on it.
C5_RetriedAtSameIndex ==
    (pc \in {"post", "loop"} /\ itemReloads \in 1..MAX_VIRUS_RELOADS
       /\ itemOutcome = {})
        => processedIndex = itemBase.index

\* C6 (recovery bound): when a row raised the transient obstruction on every
\* attempt, the cursor moves past it only after at most 3 reload recoveries
\* and with exactly one FailureRecord appended for it.
C6_RecoveryBound ==
    (pc = "loop" /\ itemSeen = {"virus"} /\ processedIndex = itemBase.index + 1)
        => /\ itemReloads <= MAX_VIRUS_RELOADS
           /\ Len(failedApplicants) = itemBase.failed + 1

\* C7 (at most one outcome): no row attempt yields both a downloadCount
\* increment and a FailureRecord; in a completed run no identity is counted as
\* a success twice, and the distinct identities among successes and
\* FailureRecords are at most the rows the cursor visited.
C7_AtMostOneOutcome ==
    /\ itemOutcome # {"success", "failure"}
    /\ pc = "done" =>
          /\ ~dupSuccess
          /\ Cardinality(succeeded \cup FailureNames) <= visited

\* C8 (completion): when a run completes normally (the list and all pages
\* exhausted), the checkpoint's downloadCount equals the number of rows that
\* succeeded in the job.
C8_CompletionCheckpoint ==
    (pc = "done" /\ ~stopped /\ ~svcStopped /\ runs = 1 /\ faults = 0
       /\ activePage = NumPages /\ processedIndex = Len(Rows))
        => checkpoint.downloadCount = jobSuccesses

\* C9 (action unavailable): when every download attempt for a row found no
\* control (and no virus-scan section), tryDownloadCv returns normally after
\* the last attempt with exactly one FailureRecord 'No CV button found'
\* appended and downloadCount unchanged, and the cursor then moves past it.
C9_ActionUnavailable ==
    [][/\ (pc = "download" /\ pc' # "download" /\ itemSeen' = {"none"}) =>
            /\ pc' = "post"
            /\ attempt = RETRY_ATTEMPTS
            /\ failedApplicants' \in
                  {Append(failedApplicants, FailureRecord(n, "No CV button found")) :
                      n \in FailedNames(applicantName)}
            /\ Len(failedApplicants') = itemBase.failed + 1
            /\ downloadCount' = itemBase.count
       /\ (pc = "post" /\ itemSeen = {"none"} /\ pc' = "loop") =>
            processedIndex' = itemBase.index + 1]_vars

C9_Witness ==
    /\ pc = "loop" /\ itemSeen = {"none"} /\ processedIndex = itemBase.index + 1
    /\ Len(failedApplicants) = itemBase.failed + 1
    /\ failedApplicants[Len(failedApplicants)].reason = "No CV button found"

\* C10 (list recovery terminates): _recoverListState performs at most 50
\* scroll attempts before it returns or declares recovery failed, also when
\* the rendered count never grows and the stagnation guard fires repeatedly.
C10_ScrollAttemptsBounded == scrollAttempts <= MAX_SCROLL_RETRIES

\* C11 (fatal-run propagation): a run in which context recovery or list
\* recovery exhausted its retries does not end with startDownload's
\* completion event ('All processing completed successfully'); the error is
\* rethrown to the caller instead.
C11_FatalRunNotCompleted == recoveryExhausted => pc # "done"

\* C12 (stop is cooperative-terminal): once the stop flag is set, also when
\* the run was paused at that moment, no further selection attempt and no
\* further download attempt begins and the run does not advance to another
\* page.
C12_StopIsTerminal ==
    [][(stopped /\ Running) =>
          /\ ~SelectAttempt
          /\ ~DownloadAttempt
          /\ (pc' # "idle" => activePage' = activePage)]_vars

\* C13 (pause is cooperative): while the run is paused and not stopped, no new
\* item is started and no selection attempt or download attempt begins; an
\* engine blocked at a suspension point stays there, and after resume() it is
\* at the same item, the same attempt and the same cursor index.
C13_PauseIsCooperative ==
    [][(paused /\ ~stopped /\ Running /\ pc' # "idle") =>
          /\ ~ItemStart /\ ~SelectAttempt /\ ~DownloadAttempt
          /\ visited' = visited
          /\ (pc \in {"loop", "item", "select", "download"} =>
                 /\ pc' = pc
                 /\ processedIndex' = processedIndex
                 /\ applicantName' = applicantName
                 /\ attempt' = attempt
                 /\ activePage' = activePage)]_vars
\* the run is paused between two download attempts of one item
C13_Witness == paused /\ ~stopped /\ pc = "download" /\ attempt > 1

\* C14 (max-item limit): downloadCount never exceeds config.maxCvCount, and
\* while downloadCount >= maxCvCount no further item is handed over, selected
\* or downloaded; when the row loop finds another row at the limit it sets the
\* stop flag and the page loop ends.
C14_MaxItemLimit ==
    [][/\ downloadCount <= maxCvCount => downloadCount' <= maxCvCount
       /\ (downloadCount >= maxCvCount /\ Running /\ pc' # "idle") =>
             /\ ~ItemStart /\ ~SelectAttempt /\ ~DownloadAttempt
             /\ visited' = visited
             /\ downloadCount' = downloadCount
             /\ pc' # "item"
             /\ (LoopTop /\ ~stopped /\ processedIndex < rendered
                    /\ faults' = faults =>
                    stopped' /\ pc' = "pageDone")]_vars
\* the row loop found another row at the limit and stopped the run itself
C14_Witness ==
    /\ downloadCount = maxCvCount /\ stopped /\ ~svcStopped
    /\ pc = "pageDone" /\ processedIndex < rendered

\* C19 (verification exhaustion): when selection verification has failed on
\* all retry attempts for an item, the item is recorded as a FailureRecord
\* and its identity is marked processed before the run goes on to the next
\* row.
C19_VerificationExhausted ==
    (pc = "post" /\ itemSelect = "exhausted") =>
        /\ Len(failedApplicants) = itemBase.failed + 1
        /\ (applicantName # NoName => applicantName \in processedApplicants)

\* C20 (unclassified exception): when the per-item workflow threw an
\* exception other than the virus-scan signal (a scroll or click error
\* during selection), the identity of the item, when known, is in
\* processedApplicants when the run goes on, and the cursor then advances by
\* exactly one.
C20_ExceptionMarksProcessed ==
    [][(pc = "post" /\ itemSelect = "threw" /\ pc' = "loop") =>
          /\ (applicantName # NoName => applicantName \in processedApplicants')
          /\ processedIndex' = itemBase.index + 1]_vars

\* C15 (seek termination): navigateToPage ends within its 50 iterations and
\* never by an exception; when it has returned with the active page still
\* before the target, it has reported a warning.
C15_SeekTermination ==
    /\ loopCounter <= MAX_LOOPS + 1
    /\ ppc # "threw"
    /\ (ppc = "returned" /\ uiPage < navTarget => warned)

\* C16 (advance verifies the page change): switchToNextPage reports success
\* only when the page shown after its click is a later page than the page
\* shown before the click; it never reports success without a page change.
C16_SuccessMeansPageChange ==
    lastSwitch.result = "true" => lastSwitch.to > lastSwitch.from

\* C17 (getActivePageNumber): the caller always receives a usable page
\* number: the number the indicator shows, and 1 when the indicator is
\* absent or reading it raises an error.
C17_UsablePageNumber ==
    lastRead.kind # "none" =>
        /\ lastRead.value \in 1..MaxPage
        /\ (lastRead.kind \in {"absent", "error"} => lastRead.value = 1)
        /\ (lastRead.kind \in {"number", "text"} =>
               lastRead.value = lastRead.shown)

\* C18 (isNextPageAvailable): the result is true exactly when an active-page
\* indicator exists and the page-button holding it is not the last rendered
\* page-button; it is false when there is no indicator.
C18_NextPageAvailable ==
    [][CheckNextPage =>
          (nextAvailable' = "true" <=>
              /\ indicator # "absent"
              /\ uiPage \in visible
              /\ \E n \in visible : n > uiPage)]_vars
\* the indicator is on the last rendered page-button and the answer was no
C18_Witness ==
    /\ nextAvailable = "false" /\ indicator # "absent" /\ uiPage \in visible
    /\ Cardinality(visible) > 1 /\ lastSwitch = NoSwitch

\* C21 (failure records are append-only): over the saves of one job, also
\* after the job was stopped and resumed, the failed-items list written to
\* the checkpoint has the list of the previous save as a prefix.
C21_FailuresAppendOnly ==
    [][LET SavedFailures(file) ==
               IF "failedApplicants" \in DOMAIN file
               THEN file.failedApplicants ELSE <<>>
           IsPrefix(s, t) == Len(s) <= Len(t) /\ SubSeq(t, 1, Len(s)) = s
       IN SameJob =>
             IsPrefix(SavedFailures(checkpoint), SavedFailures(checkpoint'))]_vars

\* C22 (checkpoint merge-write): a saveState call sets every key present in
\* its update and leaves every other key of the stored checkpoint as it was;
\* loading a missing file gives the empty "no prior state" value.
C22_MergeWrite ==
    /\ [][\A caller \in Callers :
            SaveWrite(caller) =>
              /\ \A k \in DOMAIN saving[caller].update :
                    /\ k \in DOMAIN checkpoint'
                    /\ checkpoint'[k] = saving[caller].update[k]
              /\ \A k \in (DOMAIN checkpoint) \ (DOMAIN saving[caller].update) :
                    /\ k \in DOMAIN checkpoint'
                    /\ checkpoint'[k] = checkpoint[k]]_vars
    /\ [](DOMAIN loadState(EmptyState) = {})

\* C23 (identity validity): every non-empty name extractName returns is at
\* least 2 characters long and contains none of the placeholder labels of
\* invalidNames.
C23_IdentityValid ==
    (extracted.done /\ extracted.name # <<>>) =>
        /\ CharLength(extracted.name) >= MIN_NAME_LENGTH
        /\ \A invalid \in invalidNames : ~Includes(extracted.name, invalid)

\* C24 (row iteration): within a page the cursor only moves from an index to
\* the next one, and only after processSingleApplicant was called on that
\* index; and when a call of processCurrentPage ends with no stop requested,
\* the limit not reached and no virus-scan reload, the workflow has been
\* called on every rendered index (the cursor has reached the rendered count).
C24_EveryIndexInOrder ==
    [][/\ (processedIndex' # processedIndex /\ pc' # "idle" /\ pc # "pageDone"
             /\ pc \notin {"idle", "done"}) =>
            /\ processedIndex' = processedIndex + 1
            /\ itemBase.index = processedIndex
            /\ pc \in {"post", "download"}
       /\ (pc = "loop" /\ pc' = "pageDone" /\ ~stopped' /\ reloads = 0) =>
            processedIndex >= rendered']_vars

\* C25 (safe click target): when the row contains the safe click sub-target
\* every click of _selectAndVerifyApplicant lands on that sub-target and none
\* on the row container; when it contains none the clicks land on the row
\* container.
C25_SafeClickTarget ==
    \A i \in 1..Len(sClicks) :
        sClicks[i].element = IF sRow.hasSafe THEN "safe" ELSE "row"

\* C29 (select retries): at most RETRY_ATTEMPTS attempts are made, none after
\* the first verified one, true is returned exactly when an attempt verified,
\* every click after the first is forced, and once a row with a safe
\* sub-target has been clicked more than once the clicks have used both the
\* sub-target and the row container.
C29_SelectRetries ==
    /\ Len(sClicks) <= RETRY_ATTEMPTS
    /\ sVerifiedAt # 0 => spc = "done" /\ Len(sClicks) = sVerifiedAt
    /\ spc = "done" => ((sResult = "true") <=> (sVerifiedAt # 0))
    /\ \A i \in 2..Len(sClicks) : sClicks[i].force
    /\ (sRow.hasSafe /\ Len(sClicks) >= 2) =>
          {sClicks[i].element : i \in 1..Len(sClicks)} = {"row", "safe"}

\* C26 (context recovery): _ensurePageContext navigates at most 3 times; when
\* it reports the context restored the page is the list with more rows
\* rendered than the cursor index; and it never reports the context as
\* already correct while the page is off the list view.
C26_ContextRecovery ==
    /\ cAttempts <= CONTEXT_ATTEMPTS
    /\ cResult = "restored" => ~OffList(cUrl) /\ cListCount > cRequired
    /\ cResult = "already" => ~OffList(cUrl)

\* C27 (lazy load and page completion): processCurrentPage declares the page
\* complete exactly when the cursor has reached the rendered count and the
\* lazy-load attempt brings no new row; when the attempt brings new rows the
\* loop continues with the same cursor, and the next row handed to
\* processSingleApplicant is the one at the cursor.
C27_LazyLoadCompletion ==
    [][LET atEnd == /\ pc = "loop" /\ ~stopped /\ ~paused
                    /\ processedIndex >= rendered
                    /\ LoopTop /\ faults' = faults
       IN
       /\ (pc = "loop" /\ pc' = "pageDone" /\ ~stopped' /\ faults' = faults) =>
             processedIndex >= rendered /\ rendered' = rendered
       /\ (atEnd /\ rendered' = rendered) => pc' = "pageDone"
       /\ (atEnd /\ rendered' > rendered) =>
             pc' = "loop" /\ processedIndex' = processedIndex
       /\ (pc = "loop" /\ pc' = "item") =>
             processedIndex < rendered /\ itemBase'.index = processedIndex]_vars

\* a page whose rows were all handed to processSingleApplicant was declared
\* complete after a lazy-load attempt without growth
C27_Witness ==
    /\ pc = "pageDone" /\ ~stopped /\ faults = 0 /\ reloads = 0
    /\ rendered = MaxRows /\ processedIndex = rendered /\ visited = MaxRows

\* C28 (download retries): a call of tryDownloadCv makes at most
\* RETRY_ATTEMPTS attempts; an attempt that ends with a timeout, another
\* error or no control found never leaves the call by an exception: before
\* the last attempt it is retried with nothing recorded, on the last attempt
\* exactly one FailureRecord is appended and the call returns; the page loop
\* then moves to the next row.
C28_DownloadRetriesBounded ==
    [][/\ DownloadAttempt =>
            LET pushed == Len(failedApplicants') - Len(failedApplicants)
                signalled == pc' \in {"reload", "loop"}
                saved == downloadCount' # downloadCount
                survey == /\ pushed = 1
                          /\ failedApplicants'[Len(failedApplicants')].reason
                               = "Premium Survey Link Detected"
            IN
            /\ attempt <= RETRY_ATTEMPTS /\ attempt' <= RETRY_ATTEMPTS
            /\ (~signalled /\ ~saved /\ ~survey) =>
                  IF attempt < RETRY_ATTEMPTS
                  THEN pc' = "download" /\ attempt' = attempt + 1 /\ pushed = 0
                  ELSE /\ pc' = "post" /\ pushed = 1
                       /\ failedApplicants'[Len(failedApplicants')].reason \in
                            {"No CV button found", "Download timeout",
                             "error.message"}
                       /\ SubSeq(failedApplicants', 1, Len(failedApplicants))
                            = failedApplicants
       /\ (pc = "post" /\ pc' \notin {"post", "idle"}) =>
            pc' = "loop" /\ processedIndex' = processedIndex + 1]_vars

\* the last attempt timed out: one record 'Download timeout' was appended and
\* the call returned
C28_Witness ==
    /\ pc = "post" /\ attempt = RETRY_ATTEMPTS /\ "error" \in itemSeen
    /\ Len(failedApplicants) = itemBase.failed + 1
    /\ failedApplicants[Len(failedApplicants)].reason = "Download timeout"

\* C30 (order of the download-control strategies): the control an attempt
\* goes on with is the one found by the first strategy that matches, in the
\* order primary selector (with its fallback selector), broad selector,
\* 'more actions' menu; a control found is not replaced by a later strategy,
\* and the control is missing only when no strategy matches.
C30_LocateOrder ==
    lUsed # "pending" =>
        IF Matches("primary", lDom) THEN lUsed = "primary"
        ELSE IF Matches("fallback", lDom) THEN lUsed = "fallback"
        ELSE IF Matches("broad", lDom) THEN lUsed = "broad"
        ELSE IF Matches("menu", lDom) THEN lUsed = "menu"
        ELSE lUsed = "none"

\* C31 (break interval): the long break is taken after a row exactly when
\* that row raised downloadCount to a positive multiple of the break
\* interval; a row that did not raise downloadCount (a skipped duplicate, a
\* failed row, a row walked again after a resume) is not followed by one.
C31_BreakAfterEveryNSuccesses ==
    [][AfterItem =>
          (itemBreak' <=> (/\ downloadCount > itemBase.count
                           /\ downloadCount % breakInterval = 0))]_vars

\* C32 (smart jump): in a pass of navigateToPage's loop in which the target
\* page button is not rendered, when numbered buttons lie strictly between
\* the current page (as read by getActivePageNumber) and the target, the
\* click goes to the greatest of them (the UI moves there or stays) and
\* switchToNextPage is not called; when there is none, the UI moves only
\* through switchToNextPage.
C32_SmartJump ==
    [][(/\ NavigateIterate
        /\ JsLess(currentPage, navTarget) /\ loopCounter < MAX_LOOPS
        /\ navTarget \notin visible) =>
          LET between == {n \in visible : currentPage < n /\ n < navTarget} IN
          /\ between # {} =>
                /\ lastSwitch' = lastSwitch
                /\ uiPage' \in {uiPage} \cup
                      {n \in between : \A m \in between : m <= n}
                /\ uiPage' # uiPage => uiPage' < navTarget
          /\ (between = {} /\ uiPage' # uiPage) =>
                lastSwitch'.from = uiPage /\ lastSwitch'.to = uiPage']_vars

\* after the first pass, a smart jump, the loop goes on from a page between
\* the first page and the target
C32_Witness ==
    /\ ppc = "loop" /\ loopCounter = 1 /\ lastSwitch = NoSwitch
    /\ uiPage > 1 /\ currentPage = uiPage /\ uiPage < navTarget
    /\ uiPage \in visible

\* C33 (order of the identity strategies): when the reads of the row succeed,
\* extractName returns the result of the first of card title, first line of
\* the lockup title, nested link text and image alt (suffix stripped) whose
\* text is valid, and '' when none is; the call changes nothing but the
\* value it returns.
C33_StrategyOrder ==
    /\ [](extracted.done /\ ~rowTexts.readFails =>
            LET row == rowTexts
                texts == <<row.title.text, FirstLine(row.lockup.text),
                           row.link.text, CleanAlt(row.alt.text)>>
                found == <<row.title.present, row.lockup.present,
                           row.link.present,
                           row.alt.present /\ row.alt.text # <<>>>>
                passing == {i \in 1..4 : found[i] /\ isValidName(texts[i])}
                first == CHOOSE i \in passing : \A j \in passing : i <= j
            IN IF passing = {} THEN extracted.name = <<>>
               ELSE extracted.name =
                      IF first = 4 THEN texts[4] ELSE cleanName(texts[first]))
    /\ [][ExtractName => UNCHANGED <<mainVars, rowTexts>>]_vars

\* the title is missing, the first line of the lockup title is too short, and
\* the name comes from the nested link
C33_Witness ==
    /\ extracted.done /\ ~rowTexts.readFails
    /\ ~rowTexts.title.present
    /\ rowTexts.lockup.present /\ ~isValidName(FirstLine(rowTexts.lockup.text))
    /\ rowTexts.link.present /\ isValidName(rowTexts.link.text)
    /\ extracted.name = cleanName(rowTexts.link.text)

\* C34 (unique artifact path): the path an artifact is saved to did not exist
\* when it was chosen: it is the original name when that is free, otherwise
\* the name with the smallest version suffix, counting from 2, such that the
\* original and every lower version exist; the save adds one file and
\* replaces none, and the search ends within one more step than the
\* directory has files.
C34_UniquePath ==
    [][\A finalName \in FileNames : SaveAs(finalName) =>
          /\ savedFile' \notin files
          /\ savedFile'[1] = finalName
          /\ (<<finalName, 1>> \notin files) => savedFile'[2] = 1
          /\ (<<finalName, 1>> \in files) =>
                /\ savedFile'[2] >= 2
                /\ \A v \in 1..(savedFile'[2] - 1) : <<finalName, v>> \in files
          /\ savedFile'[2] <= Cardinality(files) + 1
          /\ files' = files \cup {savedFile'}
          /\ Cardinality(files') = Cardinality(files) + 1]_vars

\* the original and _v2 were taken and the artifact went to _v3
C34_Witness ==
    /\ savedFile = <<"ada", 3>>
    /\ {<<"ada", 1>>, <<"ada", 2>>, <<"ada", 3>>} \subseteq files

\* C35 (forced save on pause and stop): pause() and stop() write the
\* checkpoint whatever downloadCount is, and what they write is the
\* in-memory processedApplicants, downloadCount and failedApplicants; the
\* save after a row, with neither pause nor stop requested, writes nothing
\* unless downloadCount is a multiple of SAVE_EVERY.
C35_ForcedSave ==
    [][/\ (Pause \/ Stop) =>
            /\ {"processedApplicants", "downloadCount", "failedApplicants"}
                  \subseteq DOMAIN checkpoint'
            /\ checkpoint'.processedApplicants = processedApplicants
            /\ checkpoint'.downloadCount = downloadCount
            /\ checkpoint'.failedApplicants = failedApplicants
       /\ (AfterItem /\ ~paused /\ ~stopped
             /\ downloadCount % SAVE_EVERY # 0) => checkpoint' = checkpoint]_vars

\* a first run paused after one success: the checkpoint holds the count, which
\* the throttle alone would not have written
C35_Witness ==
    /\ paused /\ runs = 1 /\ ~resumed
    /\ downloadCount = 1
    /\ "downloadCount" \in DOMAIN checkpoint /\ checkpoint.downloadCount = 1
    /\ checkpoint.processedApplicants = processedApplicants

\* C36 (runProcessingLoop terminates): an iteration that does not leave the
\* loop, i.e. one where isNextPageAvailable held and switchToNextPage
\* returned true, ends on a page with a larger number than the page it processed, so no page is processed twice;
\* every other iteration ends the loop.
C36_IterationAdvances ==
    [][(/\ isNextPageAvailable(ActiveCount(indicator),
               IsCurrentFlags(indicator, uiPage, PageItems(visible)))
        /\ AdvancePage
        /\ lastSwitch'.result = "true") => uiPage' > uiPage]_vars

\* C37 (no lost update in the checkpoint store): when the last of several
\* overlapping saveState calls has written, the file holds for every key the
\* value written to it most recently: the keys of that last call have its
\* values and every other key still has the value the file held just before.
C37_NoLostUpdate ==
    [][\A caller \in Callers :
          (SaveWrite(caller) /\ saving' = [c \in Callers |-> NotSaving]) =>
             \A k \in DOMAIN checkpoint \cup DOMAIN saving[caller].update :
                /\ k \in DOMAIN checkpoint'
                /\ checkpoint'[k] =
                     IF k \in DOMAIN saving[caller].update
                     THEN saving[caller].update[k] ELSE checkpoint[k]]_vars

\* C38 (a fresh start leaves no residue): after the initial save of a start
\* that does not resume, the checkpoint holds neither a lastPage nor failed
\* items of the job before it.
C38_FreshStartIsClean ==
    [][(\E resume \in BOOLEAN : StartDownload(resume) /\ jobNo' # jobNo) =>
          /\ "lastPage" \notin DOMAIN checkpoint'
          /\ ("failedApplicants" \in DOMAIN checkpoint' =>
                 checkpoint'.failedApplicants = <<>>)]_vars

\* C39 (limit reached, no further navigation): once downloadCount has reached
\* maxCvCount, runProcessingLoop switches to no further page, whichever row
\* the limit was reached on.
C39_NoNavigationAfterLimit ==
    [][(PageDone /\ activePage' # activePage) => downloadCount < maxCvCount]_vars

\* C40 (completion event): runProcessingLoop returning normally makes
\* startDownload emit 'All processing completed successfully'; that happens
\* only for a run that was not stopped by the user and that either reached
\* the download limit or processed the last page.
C40_CompletedOnlyWhenFinished ==
    pc = "done" =>
        /\ ~svcStopped
        /\ (downloadCount >= maxCvCount \/ activePage = NumPages)

====
